---- MODULE Spec2Model ----
(***************************************************************************)
(* Model of the code quality analyzer (src/code_quality_analyzer.py):      *)
(* the CodeQualityAnalyzer object (self.files, self.smells), analyze_file  *)
(* with its ten smell detectors and metric calculators, and                *)
(* compute_project_metrics / generate_reports.                             *)
(*                                                                         *)
(* Numbers.  Python floats are modelled in fixed point:                    *)
(*   natural logarithms      in micro units  (1e-6)                        *)
(*   halstead volume, mi     in milli units  (1e-3)                        *)
(*   quality_score           in 1/20000 units (so mi/20 is exact)          *)
(*   rounded report values   in tenths                                     *)
(***************************************************************************)
EXTENDS Integers, Sequences, FiniteSets, TLC

(***************************************************************************)
(* Fixed-point arithmetic                                                   *)
(***************************************************************************)
Max(a, b) == IF a >= b THEN a ELSE b
Min(a, b) == IF a <= b THEN a ELSE b

\* ln(2) in micro units
LN2 == 693147

\* scale of the series variable z in Ln
ZS == 40000

RECURSIVE Log2Floor(_)
Log2Floor(n) == IF n < 2 THEN 0 ELSE 1 + Log2Floor(n \div 2)

RECURSIVE Pow2(_)
Pow2(e) == IF e = 0 THEN 1 ELSE 2 * Pow2(e - 1)

\* math.log(n) for an integer n >= 1, in micro units (error < 3e-4):
\* n = 2^e * m, 1 <= m < 2, ln m = 2 atanh((m-1)/(m+1)).
RECURSIVE Ln(_)
Ln(n) ==
    IF n >= 65536 THEN LN2 + Ln(n \div 2)
    ELSE LET e  == Log2Floor(n)
             p  == Pow2(e)
             z  == ((n - p) * ZS) \div (n + p)
             z2 == (z * z) \div ZS
             z3 == (z * z2) \div ZS
             z5 == (z3 * z2) \div ZS
             z7 == (z5 * z2) \div ZS
             z9 == (z7 * z2) \div ZS
             s  == z + (z3 \div 3) + (z5 \div 5) + (z7 \div 7) + (z9 \div 9)
         IN  e * LN2 + s * 50

\* math.log2(k) for an integer k >= 1, in milli units
Log2Milli(k) == ((Ln(k) \div 10) * 1000) \div 69315

\* math.log(x) for x given in milli units, x >= 1000, in micro units
LnOfMilli(x) == Ln(x) - Ln(1000)

\* num / den (den > 0, num >= 0) to the nearest integer, ties to even
RoundHalfEven(num, den) ==
    LET q == num \div den
        r == num % den
    IN  IF 2 * r > den THEN q + 1
        ELSE IF 2 * r < den THEN q
        ELSE IF q % 2 = 0 THEN q ELSE q + 1

\* floor(log2(a / 20)) for an integer a >= 1
RECURSIVE Log2Twentieths(_)
Log2Twentieths(a) ==
    IF a >= 20 THEN Log2Floor(a \div 20) ELSE Log2Twentieths(2 * a) - 1

\* round(x, 1), in tenths, for the double x nearest to num / (10 den)
\* (den > 0, num >= 0).  round() rounds the value the double holds.  Off a
\* decimal tie that is the nearest tenth of the quotient.  On a tie
\* x = a/20 with a odd: when 5 divides a the double holds x exactly (a
\* multiple of 1/4) and the tie goes to the even tenth; otherwise the
\* double lies above or below a/20 as the binary expansion of a/20 is cut
\* after its 53rd significant bit, and the part cut off is
\* (a * 2^(50 - e) mod 5) / 5 of the last place, e = floor(log2(a/20)).
round(num, den) ==
    LET q == num \div den
        a == 2 * q + 1
        c == ((a % 5) * Pow2((50 - Log2Twentieths(a)) % 4)) % 5
    IN  IF 2 * (num % den) # den \/ a % 5 = 0 THEN RoundHalfEven(num, den)
        ELSE IF c >= 3 THEN q + 1 ELSE q

(***************************************************************************)
(* calculate_mi: min(100, max(0, 171 - 5.2 ln(hv) - 0.23 cc - 16.2 ln(loc)))*)
(* hv in milli units, result in milli units.                               *)
(***************************************************************************)
RawMI(hv, cc, loc) ==
    LET h == Max(1000, hv)
        l == Max(1, loc)
    IN  171000 - ((52 * LnOfMilli(h)) \div 10000) - 230 * cc
               - ((162 * Ln(l)) \div 10000)

\* the formula without its clamp
calculate_mi_unclamped(hv, cc, loc) == RawMI(hv, cc, loc)

calculate_mi(hv, cc, loc) == Min(100000, Max(0, RawMI(hv, cc, loc)))

(***************************************************************************)
(* Syntax trees (Python's ast).  Every node is a record of one shape; a    *)
(* field a node kind does not have is empty.  Operator and context nodes   *)
(* (ast.Add, ast.Load, ...) are leaves no detector looks at; ctx is kept   *)
(* as a field of Name and the operator nodes are left out.                 *)
(***************************************************************************)
Node(kind) ==
    [kind |-> kind, name |-> "", lineno |-> 0, ctx |-> "", dotted |-> <<>>,
     targets |-> <<>>, exprs |-> <<>>, args |-> <<>>, body |-> <<>>,
     handlers |-> <<>>, orelse |-> <<>>, finalbody |-> <<>>,
     decorators |-> <<>>, returns |-> <<>>, defaults |-> <<>>]

\* expressions
Name(id, ctx)       == [Node("Name") EXCEPT !.name = id, !.ctx = ctx]
NameL(id)           == Name(id, "Load")
NameS(id)           == Name(id, "Store")
Constant            == Node("Constant")
Str(value)          == [Constant EXCEPT !.name = "str", !.dotted = <<value>>]
Attribute(value, a) == [Node("Attribute") EXCEPT !.name = a, !.exprs = <<value>>]
BinOp(left, right)  == [Node("BinOp") EXCEPT !.exprs = <<left, right>>]
BoolOp(values)      == [Node("BoolOp") EXCEPT !.exprs = values]
Compare(left, right) == [Node("Compare") EXCEPT !.exprs = <<left, right>>]
Call(func, args)    == [Node("Call") EXCEPT !.exprs = <<func>> \o args]
TupleS(elts)        == [Node("Tuple") EXCEPT !.ctx = "Store", !.exprs = elts]

\* statements
Stmt(kind, line)    == [Node(kind) EXCEPT !.lineno = line]
Pass(line)          == Stmt("Pass", line)
Break(line)         == Stmt("Break", line)
Continue(line)      == Stmt("Continue", line)
Return(line, value) == [Stmt("Return", line) EXCEPT !.exprs = value]
Raise(line, exc)    == [Stmt("Raise", line) EXCEPT !.exprs = exc]
Expr(line, value)   == [Stmt("Expr", line) EXCEPT !.exprs = <<value>>]
Assign(line, targets, value) ==
    [Stmt("Assign", line) EXCEPT !.targets = targets, !.exprs = <<value>>]
AnnAssign(line, target, annotation, value) ==
    [Stmt("AnnAssign", line) EXCEPT !.targets = <<target>>,
                                     !.exprs = <<annotation>> \o value]
If(line, test, body, orelse) ==
    [Stmt("If", line) EXCEPT !.exprs = <<test>>, !.body = body, !.orelse = orelse]
While(line, test, body, orelse) ==
    [Stmt("While", line) EXCEPT !.exprs = <<test>>, !.body = body, !.orelse = orelse]
For(line, target, iter, body, orelse) ==
    [Stmt("For", line) EXCEPT !.targets = <<target>>, !.exprs = <<iter>>,
                               !.body = body, !.orelse = orelse]
With(line, items, body) ==
    [Stmt("With", line) EXCEPT !.exprs = items, !.body = body]
ExceptHandler(line, type, body) ==
    [Stmt("ExceptHandler", line) EXCEPT !.exprs = type, !.body = body]
Try(line, body, handlers, orelse, finalbody) ==
    [Stmt("Try", line) EXCEPT !.body = body, !.handlers = handlers,
                               !.orelse = orelse, !.finalbody = finalbody]
alias(dotted) == [Node("alias") EXCEPT !.dotted = dotted]
Import(line, names) == [Stmt("Import", line) EXCEPT !.exprs = names]
ImportFrom(line, names) == [Stmt("ImportFrom", line) EXCEPT !.exprs = names]

\* definitions
arg(id, annotation) == [Node("arg") EXCEPT !.name = id, !.exprs = annotation]
arguments(args)     == [Node("arguments") EXCEPT !.args = args]
FunctionDef(name, line, args, body, returns) ==
    [Stmt("FunctionDef", line) EXCEPT !.name = name, !.args = <<arguments(args)>>,
                                       !.body = body, !.returns = returns]
ClassDef(name, line, body) ==
    [Stmt("ClassDef", line) EXCEPT !.name = name, !.body = body]
Module(body) == [Node("Module") EXCEPT !.body = body]

\* the subclasses of ast.stmt
StmtKinds ==
    {"FunctionDef", "AsyncFunctionDef", "ClassDef", "Return", "Delete",
     "Assign", "AugAssign", "AnnAssign", "For", "AsyncFor", "While", "If",
     "With", "AsyncWith", "Match", "Raise", "Try", "TryStar", "Assert",
     "Import", "ImportFrom", "Global", "Nonlocal", "Expr", "Pass", "Break",
     "Continue"}

IsStmt(n) == n.kind \in StmtKinds
IsFunctionDef(n) == n.kind = "FunctionDef"
IsClassDef(n) == n.kind = "ClassDef"

\* (ast.If, ast.For, ast.While, ast.With, ast.AsyncFor, ast.AsyncWith, ast.Try)
ControlKinds == {"If", "For", "While", "With", "AsyncFor", "AsyncWith", "Try"}

\* ast.iter_child_nodes: the child nodes in the order of the node's _fields
iter_child_nodes(n) ==
    n.targets \o n.exprs \o n.args \o n.body \o n.handlers \o n.orelse
        \o n.finalbody \o n.decorators \o n.returns \o n.defaults

\* concatenation of ss[lo..hi], a sequence of sequences
RECURSIVE FlattenRange(_, _, _)
FlattenRange(ss, lo, hi) ==
    IF lo > hi THEN <<>>
    ELSE IF lo = hi THEN ss[lo]
    ELSE LET mid == (lo + hi) \div 2
         IN  FlattenRange(ss, lo, mid) \o FlattenRange(ss, mid + 1, hi)

Flatten(ss) == FlattenRange(ss, 1, Len(ss))

\* sum of a sequence of integers
RECURSIVE SumRange(_, _, _)
SumRange(s, lo, hi) ==
    IF lo > hi THEN 0
    ELSE IF lo = hi THEN s[lo]
    ELSE LET mid == (lo + hi) \div 2
         IN  SumRange(s, lo, mid) + SumRange(s, mid + 1, hi)

Sum(s) == SumRange(s, 1, Len(s))

\* ast.walk from a deque holding `level`: breadth first, each node once
RECURSIVE WalkLevel(_)
WalkLevel(level) ==
    IF level = <<>> THEN <<>>
    ELSE level \o WalkLevel(Flatten([i \in 1..Len(level) |->
                                        iter_child_nodes(level[i])]))

walk(node) == WalkLevel(<<node>>)

\* len([n for n in ast.walk(node) if isinstance(n, ast.stmt)])
count_lines(node) == Len(SelectSeq(walk(node), IsStmt))

get_method_severity(lines) ==
    IF lines > 50 THEN "critical"
    ELSE IF lines > 35 THEN "high"
    ELSE IF lines > 25 THEN "medium"
    ELSE "low"

SetMax(S) == CHOOSE m \in S : \A x \in S : m >= x

\* largest element of s[lo..hi], at least `least`
RECURSIVE MaxRange(_, _, _, _)
MaxRange(s, lo, hi, least) ==
    IF lo > hi THEN least
    ELSE IF lo = hi THEN Max(least, s[lo])
    ELSE LET mid == (lo + hi) \div 2
         IN  Max(MaxRange(s, lo, mid, least), MaxRange(s, mid + 1, hi, least))

\* find_max_nesting that also counts function and class definitions
RECURSIVE find_max_nesting_definitions(_, _)
find_max_nesting_definitions(node, depth) ==
    LET ch == iter_child_nodes(node)
    IN  MaxRange([i \in 1..Len(ch) |->
                     find_max_nesting_definitions(ch[i],
                         IF ch[i].kind \in ControlKinds \cup {"FunctionDef", "ClassDef"}
                         THEN depth + 1 ELSE depth)],
                 1, Len(ch), depth)

\* find_max_nesting: max_depth[0], the running maximum of depth over the
\* recursion from (node, depth)
RECURSIVE find_max_nesting(_, _)
find_max_nesting(node, depth) ==
    LET ch == iter_child_nodes(node)
    IN  MaxRange([i \in 1..Len(ch) |->
                     find_max_nesting(ch[i],
                         IF ch[i].kind \in ControlKinds THEN depth + 1 ELSE depth)],
                 1, Len(ch), depth)

\* cyclomatic_complexity
cyclomatic_complexity(tree) ==
    LET w == walk(tree)
    IN  1 + Sum([i \in 1..Len(w) |->
                   IF w[i].kind \in {"If", "For", "While", "Assert"} THEN 1
                   ELSE IF w[i].kind = "BoolOp" THEN Len(w[i].exprs) - 1
                   ELSE 0])

\* operand of a BinOp: the identifier of a Name, else the node's type name
Operand(e) == IF e.kind = "Name" THEN e.name ELSE e.kind

\* halstead_volume, in milli units
halstead_volume(tree) ==
    LET binops == SelectSeq(walk(tree), LAMBDA n : n.kind = "BinOp")
        total_tokens == Len(binops)
        operands == UNION { {Operand(binops[i].exprs[1]), Operand(binops[i].exprs[2])}
                            : i \in 1..Len(binops) }
        la == 8 + Cardinality(operands) + 1
        log_arg == IF la <= 1 THEN 2 ELSE la
    IN  total_tokens * Log2Milli(log_arg)

(***************************************************************************)
(* Smell records.  Text is kept structured: node_name is the sequence of   *)
(* the pieces that the code joins into one string; description is the      *)
(* format string with the values it interpolates.                          *)
(***************************************************************************)
CodeSmell(type, file, node_name, line, severity, description) ==
    [type |-> type, file |-> file, node_name |-> node_name, line |-> line,
     severity |-> severity, description |-> description]

Desc(fmt, strs, nums) == [fmt |-> fmt, strs |-> strs, nums |-> nums]

Severities == {"low", "medium", "high", "critical"}

\* self.severity_weights
severity_weights == [low |-> 1, medium |-> 2, high |-> 3, critical |-> 5]

\* the smells F yields for the nodes of `nodes`, in order
SmellsOver(nodes, F(_)) == Flatten([i \in 1..Len(nodes) |-> F(nodes[i])])

FunctionDefs(tree) == SelectSeq(walk(tree), IsFunctionDef)
ClassDefs(tree) == SelectSeq(walk(tree), IsClassDef)

\* len(node.args.args)
ParamCount(fn) == Len(fn.args[1].args)

\* detector 1 with `>=` where the code compares with `>`
LongMethodSmell_inclusive(file_path, node) ==
    LET func_lines == count_lines(node)
    IN  IF func_lines >= 20
        THEN << CodeSmell("long_method", file_path, <<node.name>>, node.lineno,
                          get_method_severity(func_lines),
                          Desc("Function {}: {} lines", <<node.name>>, <<func_lines>>)) >>
        ELSE <<>>

\* SMELL DETECTION 1: LONG METHODS
LongMethodSmell(file_path, node) ==
    LET func_lines == count_lines(node)
    IN  IF func_lines > 20
        THEN << CodeSmell("long_method", file_path, <<node.name>>, node.lineno,
                          get_method_severity(func_lines),
                          Desc("Function {}: {} lines", <<node.name>>, <<func_lines>>)) >>
        ELSE <<>>

DetectLongMethod(tree, file_path) ==
    SmellsOver(FunctionDefs(tree), LAMBDA n : LongMethodSmell(file_path, n))

\* detector 2 with `and` where the code has `or`
GodClassSmell_both(file_path, node) ==
    LET class_lines == count_lines(node)
        methods == Len(SelectSeq(walk(node), IsFunctionDef))
    IN  IF class_lines > 100 /\ methods > 10
        THEN << CodeSmell("god_class", file_path, <<node.name>>, node.lineno,
                          IF class_lines > 200 \/ methods > 15 THEN "critical" ELSE "high",
                          Desc("Class {}: {}loc, {} methods", <<node.name>>,
                               <<class_lines, methods>>)) >>
        ELSE <<>>

\* SMELL DETECTION 2: GOD CLASS
GodClassSmell(file_path, node) ==
    LET class_lines == count_lines(node)
        methods == Len(SelectSeq(walk(node), IsFunctionDef))
    IN  IF class_lines > 100 \/ methods > 10
        THEN << CodeSmell("god_class", file_path, <<node.name>>, node.lineno,
                          IF class_lines > 200 \/ methods > 15 THEN "critical" ELSE "high",
                          Desc("Class {}: {}loc, {} methods", <<node.name>>,
                               <<class_lines, methods>>)) >>
        ELSE <<>>

DetectGodClass(tree, file_path) ==
    SmellsOver(ClassDefs(tree), LAMBDA n : GodClassSmell(file_path, n))

\* detector 3 with `>=` where the code compares with `>`
DetectDeepNesting_inclusive(tree, file_path) ==
    LET max_nesting == find_max_nesting(tree, 0)
    IN  IF max_nesting >= 4
        THEN << CodeSmell("deep_nesting", file_path, <<"complex logic">>, 1,
                          IF max_nesting > 6 THEN "high" ELSE "medium",
                          Desc("Max nesting depth: {}", <<>>, <<max_nesting>>)) >>
        ELSE <<>>

\* SMELL DETECTION 3: DEEP NESTING
DetectDeepNesting(tree, file_path) ==
    LET max_nesting == find_max_nesting(tree, 0)
    IN  IF max_nesting > 4
        THEN << CodeSmell("deep_nesting", file_path, <<"complex logic">>, 1,
                          IF max_nesting > 6 THEN "high" ELSE "medium",
                          Desc("Max nesting depth: {}", <<>>, <<max_nesting>>)) >>
        ELSE <<>>

\* detector 4 with `>=` where the code compares with `>`
LongParamSmell_inclusive(file_path, node) ==
    LET param_count == ParamCount(node)
    IN  IF param_count >= 4
        THEN << CodeSmell("long_parameter_list", file_path, <<node.name>>, node.lineno,
                          IF param_count > 6 THEN "high" ELSE "medium",
                          Desc("Function {}: {} parameters", <<node.name>>,
                               <<param_count>>)) >>
        ELSE <<>>

\* SMELL DETECTION 4: LONG PARAMETER LIST
LongParamSmell(file_path, node) ==
    LET param_count == ParamCount(node)
    IN  IF param_count > 4
        THEN << CodeSmell("long_parameter_list", file_path, <<node.name>>, node.lineno,
                          IF param_count > 6 THEN "high" ELSE "medium",
                          Desc("Function {}: {} parameters", <<node.name>>,
                               <<param_count>>)) >>
        ELSE <<>>

DetectLongParameterList(tree, file_path) ==
    SmellsOver(FunctionDefs(tree), LAMBDA n : LongParamSmell(file_path, n))

\* detector 5 with `or` where the code has `and`
MissingHintsSmell_either(file_path, node) ==
    LET params == node.args[1].args
        has_annotations == \E i \in 1..Len(params) : params[i].exprs # <<>>
        has_return_hint == node.returns # <<>>
    IN  IF ~has_annotations \/ ~has_return_hint
        THEN << CodeSmell("missing_type_hints", file_path, <<node.name>>, node.lineno,
                          IF Len(params) > 2 THEN "medium" ELSE "low",
                          Desc("Function {}: no parameter or return type hints",
                               <<node.name>>, <<>>)) >>
        ELSE <<>>

\* SMELL DETECTION 5: MISSING TYPE HINTS
MissingHintsSmell(file_path, node) ==
    LET params == node.args[1].args
        has_annotations == \E i \in 1..Len(params) : params[i].exprs # <<>>
        has_return_hint == node.returns # <<>>
    IN  IF ~has_annotations /\ ~has_return_hint
        THEN << CodeSmell("missing_type_hints", file_path, <<node.name>>, node.lineno,
                          IF Len(params) > 2 THEN "medium" ELSE "low",
                          Desc("Function {}: no parameter or return type hints",
                               <<node.name>>, <<>>)) >>
        ELSE <<>>

DetectMissingTypeHints(tree, file_path) ==
    SmellsOver(FunctionDefs(tree), LAMBDA n : MissingHintsSmell(file_path, n))

\* sep.join(names), as the sequence of its pieces
Join(names, sep) ==
    [i \in 1..(IF names = <<>> THEN 0 ELSE 2 * Len(names) - 1) |->
        IF i % 2 = 1 THEN names[(i + 1) \div 2] ELSE sep]

\* list(s) of a set of strings: the iteration order of a set is fixed by
\* the string hashing of the process and by the set; `order` gives it, as a
\* sequence in which every name of the set occurs once
SetAsList(S, order) == SelectSeq(order, LAMBDA x : x \in S)

\* detector 6 without the [:3] slice of the list of unused imports
DetectUnusedImports_untruncated(tree, file_path, order) ==
    LET w == walk(tree)
        imports == SelectSeq(w, LAMBDA n : n.kind \in {"Import", "ImportFrom"})
        imported_names == UNION { { imports[i].exprs[j].dotted[1]
                                    : j \in 1..Len(imports[i].exprs) }
                                  : i \in 1..Len(imports) }
        used_names == { w[i].name : i \in { k \in 1..Len(w) :
                                   w[k].kind = "Name" /\ w[k].ctx = "Load" } }
        unused_imports == imported_names \ used_names
        lst == SetAsList(unused_imports, order)
    IN  IF unused_imports # {}
        THEN << CodeSmell("unused_imports", file_path, Join(lst, ", "), 1, "low",
                          Desc("Unused imports: {}", Join(lst, ", "), <<>>)) >>
        ELSE <<>>

\* SMELL DETECTION 6: UNUSED IMPORTS
DetectUnusedImports(tree, file_path, order) ==
    LET w == walk(tree)
        imports == SelectSeq(w, LAMBDA n : n.kind \in {"Import", "ImportFrom"})
        imported_names == UNION { { imports[i].exprs[j].dotted[1]
                                    : j \in 1..Len(imports[i].exprs) }
                                  : i \in 1..Len(imports) }
        used_names == { w[i].name : i \in { k \in 1..Len(w) :
                                   w[k].kind = "Name" /\ w[k].ctx = "Load" } }
        unused_imports == imported_names \ used_names
        lst == SetAsList(unused_imports, order)
        first3 == SubSeq(lst, 1, Min(3, Len(lst)))
    IN  IF unused_imports # {}
        THEN << CodeSmell("unused_imports", file_path, Join(first3, ", "), 1, "low",
                          Desc("Unused imports: {}", Join(first3, ", "), <<>>)) >>
        ELSE <<>>

\* the names one assignment statement binds (detector 7)
BoundNames(inner) ==
    IF inner.kind = "Assign"
    THEN UNION { IF inner.targets[i].kind = "Name" THEN {inner.targets[i].name}
                 ELSE IF inner.targets[i].kind = "Tuple"
                 THEN { inner.targets[i].exprs[j].name
                        : j \in { k \in 1..Len(inner.targets[i].exprs) :
                                  inner.targets[i].exprs[k].kind = "Name" } }
                 ELSE {}
                 : i \in 1..Len(inner.targets) }
    ELSE IF inner.kind = "AnnAssign" /\ inner.targets[1].kind = "Name"
    THEN {inner.targets[1].name}
    ELSE {}

\* detector 7 with a list where the code keeps a set of names
ManyLocalsSmell_assignments(file_path, node) ==
    LET w == walk(node)
        local_count == Sum([i \in 1..Len(w) |-> Cardinality(BoundNames(w[i]))])
    IN  IF local_count > 8
        THEN << CodeSmell("many_local_variables", file_path, <<node.name>>, node.lineno,
                          IF local_count <= 15 THEN "medium" ELSE "high",
                          Desc("Function defines {} local variables; consider splitting into smaller functions.",
                               <<>>, <<local_count>>)) >>
        ELSE <<>>

\* SMELL DETECTION 7: MANY LOCAL VARIABLES
ManyLocalsSmell(file_path, node) ==
    LET w == walk(node)
        local_vars == UNION { BoundNames(w[i]) : i \in 1..Len(w) }
        local_count == Cardinality(local_vars)
    IN  IF local_count > 8
        THEN << CodeSmell("many_local_variables", file_path, <<node.name>>, node.lineno,
                          IF local_count <= 15 THEN "medium" ELSE "high",
                          Desc("Function defines {} local variables; consider splitting into smaller functions.",
                               <<>>, <<local_count>>)) >>
        ELSE <<>>

DetectManyLocals(tree, file_path) ==
    SmellsOver(FunctionDefs(tree), LAMBDA n : ManyLocalsSmell(file_path, n))

\* detector 8 without the floor of five foreign accesses
FeatureEnvySmell_floorless(file_path, class_node, node) ==
    LET attrs == SelectSeq(walk(node), LAMBDA n :
                     n.kind = "Attribute" /\ n.exprs[1].kind = "Name")
        bases == [i \in 1..Len(attrs) |-> attrs[i].exprs[1].name]
        Count(b) == Cardinality({ i \in 1..Len(bases) : bases[i] = b })
        self_count == Count("self")
        foreign == { i \in 1..Len(bases) : bases[i] # "self" }
        foreign_count == SetMax({ Count(bases[i]) : i \in foreign })
        first == CHOOSE i \in foreign :
                    /\ Count(bases[i]) = foreign_count
                    /\ \A j \in foreign : Count(bases[j]) = foreign_count => i <= j
        foreign_base == bases[first]
    IN  IF node.kind # "FunctionDef" \/ bases = <<>> \/ foreign = {} THEN <<>>
        ELSE IF foreign_count >= 2 * Max(1, self_count)
        THEN << CodeSmell("feature_envy", file_path,
                          <<class_node.name, ".", node.name>>, node.lineno, "medium",
                          Desc("Method uses attributes of '{}' much more than 'self'; consider moving or refactoring.",
                               <<foreign_base>>, <<>>)) >>
        ELSE <<>>

\* SMELL DETECTION 8: FEATURE ENVY, for one method of one class
FeatureEnvySmell(file_path, class_node, node) ==
    LET attrs == SelectSeq(walk(node), LAMBDA n :
                     n.kind = "Attribute" /\ n.exprs[1].kind = "Name")
        \* the keys of base_counts, in insertion order
        bases == [i \in 1..Len(attrs) |-> attrs[i].exprs[1].name]
        Count(b) == Cardinality({ i \in 1..Len(bases) : bases[i] = b })
        self_count == Count("self")
        foreign == { i \in 1..Len(bases) : bases[i] # "self" }
        foreign_count == SetMax({ Count(bases[i]) : i \in foreign })
        \* max() returns the first maximal item in insertion order
        first == CHOOSE i \in foreign :
                    /\ Count(bases[i]) = foreign_count
                    /\ \A j \in foreign : Count(bases[j]) = foreign_count => i <= j
        foreign_base == bases[first]
    IN  IF node.kind # "FunctionDef" \/ bases = <<>> \/ foreign = {} THEN <<>>
        ELSE IF foreign_count >= 5 /\ foreign_count >= 2 * Max(1, self_count)
        THEN << CodeSmell("feature_envy", file_path,
                          <<class_node.name, ".", node.name>>, node.lineno, "medium",
                          Desc("Method uses attributes of '{}' much more than 'self'; consider moving or refactoring.",
                               <<foreign_base>>, <<>>)) >>
        ELSE <<>>

DetectFeatureEnvy(tree, file_path) ==
    SmellsOver(ClassDefs(tree), LAMBDA c :
        SmellsOver(c.body, LAMBDA n : FeatureEnvySmell(file_path, c, n)))

\* detector 9 without the test of the handler's type
SwallowSmell_anyType(file_path, handler) ==
    LET body == handler.body
        body_is_empty == Len(body) = 0
        body_is_pass_only == Len(body) = 1 /\ body[1].kind = "Pass"
    IN  IF body_is_empty \/ body_is_pass_only
        THEN << CodeSmell("exception_swallowing", file_path, <<"<module>">>,
                          handler.lineno, "high",
                          Desc("Exception swallowed with broad 'except' and no real handling.",
                               <<>>, <<>>)) >>
        ELSE <<>>

\* SMELL DETECTION 9: EXCEPTION SWALLOWING, for one handler
SwallowSmell(file_path, handler) ==
    LET is_bare_except == handler.exprs = <<>>
        is_exception == /\ handler.exprs # <<>>
                        /\ handler.exprs[1].kind = "Name"
                        /\ handler.exprs[1].name = "Exception"
        body == handler.body
        body_is_empty == Len(body) = 0
        body_is_pass_only == Len(body) = 1 /\ body[1].kind = "Pass"
    IN  IF (is_bare_except \/ is_exception) /\ (body_is_empty \/ body_is_pass_only)
        THEN << CodeSmell("exception_swallowing", file_path, <<"<module>">>,
                          handler.lineno, "high",
                          Desc("Exception swallowed with broad 'except' and no real handling.",
                               <<>>, <<>>)) >>
        ELSE <<>>

DetectExceptionSwallowing(tree, file_path) ==
    SmellsOver(SelectSeq(walk(tree), LAMBDA n : n.kind = "Try"), LAMBDA t :
        SmellsOver(t.handlers, LAMBDA h : SwallowSmell(file_path, h)))

\* the terminators without the two loop statements
TerminatorKinds_returning == {"Return", "Raise"}

TerminatorKinds == {"Return", "Raise", "Break", "Continue"}

\* _mark_unreachable_in_block: the smells it appends for one block
RECURSIVE mark_unreachable_in_block(_, _, _)
mark_unreachable_in_block(file_path, func_name, block) ==
    Flatten([i \in 1..Len(block) |->
        LET stmt == block[i]
            dead == \E j \in 1..(i - 1) : block[j].kind \in TerminatorKinds
            own  == IF dead
                    THEN << CodeSmell("unreachable_code", file_path, <<func_name>>,
                                      stmt.lineno, "medium",
                                      Desc("Statement is unreachable (after return/raise/break/continue).",
                                           <<>>, <<>>)) >>
                    ELSE <<>>
            nested == IF stmt.kind \in ControlKinds
                      THEN mark_unreachable_in_block(file_path, func_name, stmt.body)
                           \o mark_unreachable_in_block(file_path, func_name, stmt.orelse)
                           \o mark_unreachable_in_block(file_path, func_name, stmt.finalbody)
                           \o Flatten([h \in 1..Len(stmt.handlers) |->
                                  mark_unreachable_in_block(file_path, func_name,
                                                            stmt.handlers[h].body)])
                      ELSE <<>>
        IN  own \o nested])

\* SMELL DETECTION 10: UNREACHABLE CODE
DetectUnreachable(tree, file_path) ==
    SmellsOver(FunctionDefs(tree), LAMBDA n :
        mark_unreachable_in_block(file_path, n.name, n.body))

\* metrics.smells once the ten detectors have run, in the order they run
DetectSmells(tree, file_path, order) ==
    DetectLongMethod(tree, file_path)
        \o DetectGodClass(tree, file_path)
        \o DetectDeepNesting(tree, file_path)
        \o DetectLongParameterList(tree, file_path)
        \o DetectMissingTypeHints(tree, file_path)
        \o DetectUnusedImports(tree, file_path, order)
        \o DetectManyLocals(tree, file_path)
        \o DetectFeatureEnvy(tree, file_path)
        \o DetectExceptionSwallowing(tree, file_path)
        \o DetectUnreachable(tree, file_path)

\* sum(self.severity_weights[s.severity] for s in smells)
smell_penalty(ss) ==
    Sum([i \in 1..Len(ss) |-> severity_weights[ss[i].severity]])

\* the score without its floor
\* quality_score on a scale of 0 to 10: mi / 10 less the penalty
quality_score_outOfTen(mi, penalty) == Max(0, 2 * mi - 10000 * penalty)

quality_score_unfloored(mi, penalty) == mi - 10000 * penalty

\* max(0, (mi / 20) - (smell_penalty * 0.5)), in 1/20000 units
quality_score(mi, penalty) == Max(0, mi - 10000 * penalty)

\* the FileMetrics that analyze_file builds for a parsed file
FileMetrics(file_path, tree, order) ==
    LET loc    == Len(SelectSeq(walk(tree), IsStmt))
        found  == DetectSmells(tree, file_path, order)
        cc     == cyclomatic_complexity(tree)
        hv     == halstead_volume(tree)
        mi     == calculate_mi(hv, cc, loc)
    IN  [file_path |-> file_path, loc |-> loc, mi |-> mi, smells |-> found,
         quality_score |-> quality_score(mi, smell_penalty(found))]

(***************************************************************************)
(* Source files.  Each is the tree ast.parse returns for the source text   *)
(* quoted above it.                                                        *)
(***************************************************************************)
(* empty.py:
*)
Tree_empty ==
    Node("Module")

(* low1.py:
     import os
     import json
     
     def dump(v) -> str:
         return json.dumps(v)
*)
Tree_low1 ==
    [Node("Module") EXCEPT !.body = <<
      [Node("Import") EXCEPT !.lineno = 1, !.exprs = <<
        [Node("alias") EXCEPT !.dotted = <<"os">>]>>],
      [Node("Import") EXCEPT !.lineno = 2, !.exprs = <<
        [Node("alias") EXCEPT !.dotted = <<"json">>]>>],
      [Node("FunctionDef") EXCEPT !.name = "dump", !.lineno = 4, !.args = <<
        [Node("arguments") EXCEPT !.args = <<[Node("arg") EXCEPT !.name = "v"]>>]>>, !.body = <<
        [Node("Return") EXCEPT !.lineno = 5, !.exprs = <<
          [Node("Call") EXCEPT !.exprs = <<
            [Node("Attribute") EXCEPT !.name = "dumps", !.ctx = "Load", !.exprs = <<
              NameL("json")>>],
            NameL("v")>>]>>]>>, !.returns = <<
        NameL("str")>>]>>]

(* mid.py:
     import os, sys
     
     def pick(a, b, c, d, e):
         if a:
             return b + c
             d = e * 2
         return os.getcwd()
*)
Tree_mid ==
    [Node("Module") EXCEPT !.body = <<
      [Node("Import") EXCEPT !.lineno = 1, !.exprs = <<
        [Node("alias") EXCEPT !.dotted = <<"os">>],
        [Node("alias") EXCEPT !.dotted = <<"sys">>]>>],
      [Node("FunctionDef") EXCEPT !.name = "pick", !.lineno = 3, !.args = <<
        [Node("arguments") EXCEPT !.args = <<
          [Node("arg") EXCEPT !.name = "a"],
          [Node("arg") EXCEPT !.name = "b"],
          [Node("arg") EXCEPT !.name = "c"],
          [Node("arg") EXCEPT !.name = "d"],
          [Node("arg") EXCEPT !.name = "e"]>>]>>, !.body = <<
        [Node("If") EXCEPT !.lineno = 4, !.exprs = <<
          NameL("a")>>, !.body = <<
          [Node("Return") EXCEPT !.lineno = 5, !.exprs = <<
            [Node("BinOp") EXCEPT !.exprs = <<NameL("b"),NameL("c")>>]>>],
          [Node("Assign") EXCEPT !.lineno = 6, !.targets = <<
            NameS("d")>>, !.exprs = <<
            [Node("BinOp") EXCEPT !.exprs = <<NameL("e"),Constant>>]>>]>>],
        [Node("Return") EXCEPT !.lineno = 7, !.exprs = <<
          [Node("Call") EXCEPT !.exprs = <<
            [Node("Attribute") EXCEPT !.name = "getcwd", !.ctx = "Load", !.exprs = <<
              NameL("os")>>]>>]>>]>>]>>]

(* kitchen.py:
     import os
     import sys
     import json
     
     class Report:
         def m1(self): pass
         def m2(self): pass
         def m3(self): pass
         def m4(self): pass
         def m5(self): pass
         def m6(self): pass
         def m7(self): pass
         def m8(self): pass
         def m9(self): pass
         def m10(self): pass
         def envy(self, user, order):
             self.total = user.a + user.b + user.c + order.x
             return user.d or user.e and user.f
     
     def long_one(a, b, c, d, e, f, g):
         v1 = 1
         v2 = 2
         v3 = 3
         v4 = 4
         v5 = 5
         v6 = 6
         v7 = 7
         v8, v9 = 8, 9
         v10: int = 10
         for i in a:
             while b:
                 if c:
                     with d:
                         try:
                             if e:
                                 v1 = f - g
                         except Exception:
                             pass
                         except ValueError:
                             raise
                             v2 = 0
                         finally:
                             v3 = v1 * v2
                     break
                     v4 = 1
         assert v5
         return json
         v6 = 0
*)
Tree_kitchen ==
    [Node("Module") EXCEPT !.body = <<
      [Node("Import") EXCEPT !.lineno = 1, !.exprs = <<
        [Node("alias") EXCEPT !.dotted = <<"os">>]>>],
      [Node("Import") EXCEPT !.lineno = 2, !.exprs = <<
        [Node("alias") EXCEPT !.dotted = <<"sys">>]>>],
      [Node("Import") EXCEPT !.lineno = 3, !.exprs = <<
        [Node("alias") EXCEPT !.dotted = <<"json">>]>>],
      [Node("ClassDef") EXCEPT !.name = "Report", !.lineno = 5, !.body = <<
        [Node("FunctionDef") EXCEPT !.name = "m1", !.lineno = 6, !.args = <<
          [Node("arguments") EXCEPT !.args = <<
            [Node("arg") EXCEPT !.name = "self"]>>]>>, !.body = <<
          Pass(6)>>],
        [Node("FunctionDef") EXCEPT !.name = "m2", !.lineno = 7, !.args = <<
          [Node("arguments") EXCEPT !.args = <<
            [Node("arg") EXCEPT !.name = "self"]>>]>>, !.body = <<
          Pass(7)>>],
        [Node("FunctionDef") EXCEPT !.name = "m3", !.lineno = 8, !.args = <<
          [Node("arguments") EXCEPT !.args = <<
            [Node("arg") EXCEPT !.name = "self"]>>]>>, !.body = <<
          Pass(8)>>],
        [Node("FunctionDef") EXCEPT !.name = "m4", !.lineno = 9, !.args = <<
          [Node("arguments") EXCEPT !.args = <<
            [Node("arg") EXCEPT !.name = "self"]>>]>>, !.body = <<
          Pass(9)>>],
        [Node("FunctionDef") EXCEPT !.name = "m5", !.lineno = 10, !.args = <<
          [Node("arguments") EXCEPT !.args = <<
            [Node("arg") EXCEPT !.name = "self"]>>]>>, !.body = <<
          Pass(10)>>],
        [Node("FunctionDef") EXCEPT !.name = "m6", !.lineno = 11, !.args = <<
          [Node("arguments") EXCEPT !.args = <<
            [Node("arg") EXCEPT !.name = "self"]>>]>>, !.body = <<
          Pass(11)>>],
        [Node("FunctionDef") EXCEPT !.name = "m7", !.lineno = 12, !.args = <<
          [Node("arguments") EXCEPT !.args = <<
            [Node("arg") EXCEPT !.name = "self"]>>]>>, !.body = <<
          Pass(12)>>],
        [Node("FunctionDef") EXCEPT !.name = "m8", !.lineno = 13, !.args = <<
          [Node("arguments") EXCEPT !.args = <<
            [Node("arg") EXCEPT !.name = "self"]>>]>>, !.body = <<
          Pass(13)>>],
        [Node("FunctionDef") EXCEPT !.name = "m9", !.lineno = 14, !.args = <<
          [Node("arguments") EXCEPT !.args = <<
            [Node("arg") EXCEPT !.name = "self"]>>]>>, !.body = <<
          Pass(14)>>],
        [Node("FunctionDef") EXCEPT !.name = "m10", !.lineno = 15, !.args = <<
          [Node("arguments") EXCEPT !.args = <<
            [Node("arg") EXCEPT !.name = "self"]>>]>>, !.body = <<
          Pass(15)>>],
        [Node("FunctionDef") EXCEPT !.name = "envy", !.lineno = 16, !.args = <<
          [Node("arguments") EXCEPT !.args = <<
            [Node("arg") EXCEPT !.name = "self"],
            [Node("arg") EXCEPT !.name = "user"],
            [Node("arg") EXCEPT !.name = "order"]>>]>>, !.body = <<
          [Node("Assign") EXCEPT !.lineno = 17, !.targets = <<
            [Node("Attribute") EXCEPT !.name = "total", !.ctx = "Store", !.exprs = <<
              NameL("self")>>]>>, !.exprs = <<
            [Node("BinOp") EXCEPT !.exprs = <<
              [Node("BinOp") EXCEPT !.exprs = <<
                [Node("BinOp") EXCEPT !.exprs = <<
                  [Node("Attribute") EXCEPT !.name = "a", !.ctx = "Load", !.exprs = <<
                    NameL("user")>>],
                  [Node("Attribute") EXCEPT !.name = "b", !.ctx = "Load", !.exprs = <<
                    NameL("user")>>]>>],
                [Node("Attribute") EXCEPT !.name = "c", !.ctx = "Load", !.exprs = <<
                  NameL("user")>>]>>],
              [Node("Attribute") EXCEPT !.name = "x", !.ctx = "Load", !.exprs = <<
                NameL("order")>>]>>]>>],
          [Node("Return") EXCEPT !.lineno = 18, !.exprs = <<
            [Node("BoolOp") EXCEPT !.exprs = <<
              [Node("Attribute") EXCEPT !.name = "d", !.ctx = "Load", !.exprs = <<
                NameL("user")>>],
              [Node("BoolOp") EXCEPT !.exprs = <<
                [Node("Attribute") EXCEPT !.name = "e", !.ctx = "Load", !.exprs = <<
                  NameL("user")>>],
                [Node("Attribute") EXCEPT !.name = "f", !.ctx = "Load", !.exprs = <<
                  NameL("user")>>]>>]>>]>>]>>]>>],
      [Node("FunctionDef") EXCEPT !.name = "long_one", !.lineno = 20, !.args = <<
        [Node("arguments") EXCEPT !.args = <<
          [Node("arg") EXCEPT !.name = "a"],
          [Node("arg") EXCEPT !.name = "b"],
          [Node("arg") EXCEPT !.name = "c"],
          [Node("arg") EXCEPT !.name = "d"],
          [Node("arg") EXCEPT !.name = "e"],
          [Node("arg") EXCEPT !.name = "f"],
          [Node("arg") EXCEPT !.name = "g"]>>]>>, !.body = <<
        [Node("Assign") EXCEPT !.lineno = 21, !.targets = <<
          NameS("v1")>>, !.exprs = <<
          Constant>>],
        [Node("Assign") EXCEPT !.lineno = 22, !.targets = <<
          NameS("v2")>>, !.exprs = <<
          Constant>>],
        [Node("Assign") EXCEPT !.lineno = 23, !.targets = <<
          NameS("v3")>>, !.exprs = <<
          Constant>>],
        [Node("Assign") EXCEPT !.lineno = 24, !.targets = <<
          NameS("v4")>>, !.exprs = <<
          Constant>>],
        [Node("Assign") EXCEPT !.lineno = 25, !.targets = <<
          NameS("v5")>>, !.exprs = <<
          Constant>>],
        [Node("Assign") EXCEPT !.lineno = 26, !.targets = <<
          NameS("v6")>>, !.exprs = <<
          Constant>>],
        [Node("Assign") EXCEPT !.lineno = 27, !.targets = <<
          NameS("v7")>>, !.exprs = <<
          Constant>>],
        [Node("Assign") EXCEPT !.lineno = 28, !.targets = <<
          [Node("Tuple") EXCEPT !.ctx = "Store", !.exprs = <<
            NameS("v8"),
            NameS("v9")>>]>>, !.exprs = <<
          [Node("Tuple") EXCEPT !.ctx = "Load", !.exprs = <<Constant,Constant>>]>>],
        [Node("AnnAssign") EXCEPT !.lineno = 29, !.targets = <<
          NameS("v10")>>, !.exprs = <<
          NameL("int"),
          Constant>>],
        [Node("For") EXCEPT !.lineno = 30, !.targets = <<
          NameS("i")>>, !.exprs = <<
          NameL("a")>>, !.body = <<
          [Node("While") EXCEPT !.lineno = 31, !.exprs = <<
            NameL("b")>>, !.body = <<
            [Node("If") EXCEPT !.lineno = 32, !.exprs = <<
              NameL("c")>>, !.body = <<
              [Node("With") EXCEPT !.lineno = 33, !.exprs = <<
                [Node("withitem") EXCEPT !.exprs = <<NameL("d")>>]>>, !.body = <<
                [Node("Try") EXCEPT !.lineno = 34, !.body = <<
                  [Node("If") EXCEPT !.lineno = 35, !.exprs = <<
                    NameL("e")>>, !.body = <<
                    [Node("Assign") EXCEPT !.lineno = 36, !.targets = <<
                      NameS("v1")>>, !.exprs = <<
                      [Node("BinOp") EXCEPT !.exprs = <<NameL("f"),NameL("g")>>]>>]>>]>>, !.handlers = <<
                  [Node("ExceptHandler") EXCEPT !.lineno = 37, !.exprs = <<
                    NameL("Exception")>>, !.body = <<
                    Pass(38)>>],
                  [Node("ExceptHandler") EXCEPT !.lineno = 39, !.exprs = <<
                    NameL("ValueError")>>, !.body = <<
                    [Node("Raise") EXCEPT !.lineno = 40],
                    [Node("Assign") EXCEPT !.lineno = 41, !.targets = <<
                      NameS("v2")>>, !.exprs = <<
                      Constant>>]>>]>>, !.finalbody = <<
                  [Node("Assign") EXCEPT !.lineno = 43, !.targets = <<
                    NameS("v3")>>, !.exprs = <<
                    [Node("BinOp") EXCEPT !.exprs = <<NameL("v1"),NameL("v2")>>]>>]>>]>>],
              [Node("Break") EXCEPT !.lineno = 44],
              [Node("Assign") EXCEPT !.lineno = 45, !.targets = <<
                NameS("v4")>>, !.exprs = <<
                Constant>>]>>]>>]>>],
        [Node("Assert") EXCEPT !.lineno = 46, !.exprs = <<NameL("v5")>>],
        [Node("Return") EXCEPT !.lineno = 47, !.exprs = <<NameL("json")>>],
        [Node("Assign") EXCEPT !.lineno = 48, !.targets = <<
          NameS("v6")>>, !.exprs = <<
          Constant>>]>>]>>]

(* crit50.py: fifty functions of 52 statements each,
     def f() -> None:
         pass            (51 times)
*)
Tree_crit50 ==
    Module([i \in 1..50 |->
        FunctionDef("f", 52 * (i - 1) + 1, <<>>,
                    [j \in 1..51 |-> Pass(52 * (i - 1) + 1 + j)],
                    <<Constant>>)])

(* doc.py: a function with a docstring and one whose first statement is
   the empty string
     def f() -> int:
         "doc"
         return 1

     def g() -> int:
         ""
         return 1
*)
Tree_doc ==
    Module(<< FunctionDef("f", 1, <<>>, <<Expr(2, Str("doc")), Return(3, <<Constant>>)>>,
                          <<NameL("int")>>),
              FunctionDef("g", 5, <<>>, <<Expr(6, Str("")), Return(7, <<Constant>>)>>,
                          <<NameL("int")>>) >>)

(* bad.py: not Python, ast.parse raises SyntaxError
     def broken(:
         pass
*)
Sources == {"bad", "empty", "low1", "mid", "kitchen", "crit50", "doc"}

\* the texts the files of the project are given
Contents == Sources \ {"low1", "doc"}

\* the texts of the files the quality gate is run on: those and doc.py
GateContents == Contents \cup {"doc"}

\* whether ast.parse accepts the text
Parses(c) == c # "bad"

\* ast.parse(f.read())
Tree(c) ==
    CASE c = "empty"   -> Tree_empty
      [] c = "low1"    -> Tree_low1
      [] c = "mid"     -> Tree_mid
      [] c = "kitchen" -> Tree_kitchen
      [] c = "crit50"  -> Tree_crit50
      [] c = "doc"     -> Tree_doc

(***************************************************************************)
(* Bounds of the model                                                     *)
(***************************************************************************)
\* analyze_file calls in one run
MaxAnalyses == 2
\* times a source file is rewritten on disk during one run
MaxWrites == 1

Paths == {"a.py", "b.py"}

\* identifiers the sources import, and the orders in which a process
\* iterates the sets of unused names the sample sources make: these have
\* one or two names, os and sys, so that the two orders give every
\* iteration order of them.  (The order of a set depends on the hash seed
\* of the process and on the set; the generated files of SpecDetectors
\* take theirs from every order of their names.)
HashOrders == { <<"json", "os", "re", "sys">>, <<"sys", "re", "os", "json">> }

\* docstring_coverage arguments, in milli percent: None or 66.65, a
\* percentage whose decimal lies halfway between two tenths while its double
\* lies above the half (round(66.65, 1) is 66.7)
DocCoverages == { <<>>, <<66650>> }

(***************************************************************************)
(* State                                                                   *)
(***************************************************************************)
VARIABLES
    disk,       \* path -> content of the source file
    hashOrder,  \* str set iteration order of this process
    files,      \* self.files: path -> FileMetrics
    smells,     \* self.smells
    result,     \* the dict the last compute_project_metrics call returned,
                \* as the caller holds it now (<<>>: none of the stored state)
    op,         \* the last call: name, argument
    outcome,    \* how it ended: "ok" or the exception raised
    returned,   \* the last return of compute_project_metrics over the
                \* stored state: its argument, the dict as it was returned
    analyzed,   \* path -> content its stored FileMetrics was computed from
    reads,      \* compute_project_metrics returns since self.files and
                \* self.smells were last written (counted up to 2)
    analyses,   \* analyze_file calls so far
    writes,     \* rewrites so far
    probe,      \* a direct call of a calculator: its arguments and result
    workers,    \* path -> a concurrent analyze_file run: where it is, and
                \* the FileMetrics it holds in local state
    fixer,      \* an auto-fix session: the files as analysed and as they are
                \* now, the smells found, and what apply_ai_fixes returned
    request     \* a call of OpenRouterReviewEngine.get_review: the models
                \* still to try, the requests sent, and what it returned

\* the analyzer, its caller and the file system
mainVars == <<disk, hashOrder, files, smells, result, op, outcome, returned,
              analyzed, reads, analyses, writes>>

\* the state of the AI collaborators
engines == <<fixer, request>>

vars == <<mainVars, probe, workers, engines>>

\* the state after construction, the files of the project holding texts of
\* `contents`
Started(contents) ==
    /\ disk \in [Paths -> contents]
    /\ hashOrder \in HashOrders
    /\ files = <<>>
    /\ smells = <<>>
    /\ result = <<>>
    /\ op = [name |-> "__init__", arg |-> <<>>]
    /\ outcome = "ok"
    /\ returned = <<>>
    /\ analyzed = [p \in Paths |-> "none"]
    /\ reads = 0
    /\ analyses = 0
    /\ writes = 0
    /\ probe = <<>>
    /\ workers = [p \in Paths |-> [pc |-> "idle", metrics |-> <<>>]]
    /\ fixer = <<>>
    /\ request = <<>>

Init == Started(Contents)

\* FileMetrics of every source file the model has, computed once
Analysis ==
    [c \in { x \in Sources : Parses(x) } |->
        [p \in Paths |-> [o \in HashOrders |-> FileMetrics(p, Tree(c), o)]]]

\* d[k] = v of a dict held as a function
Put(d, k, v) == [x \in DOMAIN d \cup {k} |-> IF x = k THEN v ELSE d[x]]

(***************************************************************************)
(* analyze_file(file_path)                                                 *)
(***************************************************************************)
\* analyze_file extending the record it already holds for the path
AfterAnalyze_extending(self, file_path, c, order) ==
    IF ~Parses(c)
    THEN [self EXCEPT !.outcome = "SyntaxError"]
    ELSE LET computed == Analysis[c][file_path][order]
             prior    == IF file_path \in DOMAIN self.files
                         THEN self.files[file_path].smells ELSE <<>>
             metrics  == [computed EXCEPT
                            !.smells = prior \o computed.smells,
                            !.quality_score =
                                quality_score(computed.mi,
                                    smell_penalty(prior \o computed.smells))]
         IN  [files   |-> Put(self.files, file_path, metrics),
              smells  |-> self.smells \o computed.smells,
              outcome |-> "ok"]

\* analyze_file taking the penalty from the project-wide smell list
AfterAnalyze_projectPenalty(self, file_path, c, order) ==
    IF ~Parses(c)
    THEN [self EXCEPT !.outcome = "SyntaxError"]
    ELSE LET computed == Analysis[c][file_path][order]
             metrics  == [computed EXCEPT
                            !.quality_score =
                                quality_score(computed.mi,
                                    smell_penalty(self.smells \o computed.smells))]
         IN  [files   |-> Put(self.files, file_path, metrics),
              smells  |-> self.smells \o computed.smells,
              outcome |-> "ok"]

\* analyze_file catching the parse error and storing an empty record
AfterAnalyze_swallowing(self, file_path, c, order) ==
    IF ~Parses(c)
    THEN [files   |-> Put(self.files, file_path,
                          [file_path |-> file_path, loc |-> 0, mi |-> 0,
                           smells |-> <<>>, quality_score |-> 0]),
          smells  |-> self.smells,
          outcome |-> "ok"]
    ELSE LET metrics == Analysis[c][file_path][order]
         IN  [files   |-> Put(self.files, file_path, metrics),
              smells  |-> self.smells \o metrics.smells,
              outcome |-> "ok"]

\* analyze_file dropping the path's earlier smells from the project list
AfterAnalyze_replacing(self, file_path, c, order) ==
    IF ~Parses(c)
    THEN [self EXCEPT !.outcome = "SyntaxError"]
    ELSE LET metrics == Analysis[c][file_path][order]
         IN  [files   |-> Put(self.files, file_path, metrics),
              smells  |-> SelectSeq(self.smells, LAMBDA s : s.file # file_path)
                              \o metrics.smells,
              outcome |-> "ok"]

\* the analyzer object after analyze_file(file_path) on content c:
\* ast.parse raises before anything is stored; otherwise lines 333-334
AfterAnalyze(self, file_path, c, order) ==
    IF ~Parses(c)
    THEN [self EXCEPT !.outcome = "SyntaxError"]
    ELSE LET metrics == Analysis[c][file_path][order]
         IN  [files   |-> Put(self.files, file_path, metrics),
              smells  |-> self.smells \o metrics.smells,
              outcome |-> "ok"]

analyze_file(file_path) ==
    /\ analyses < MaxAnalyses
    /\ \E after \in { AfterAnalyze([files |-> files, smells |-> smells,
                                     outcome |-> "ok"],
                                    file_path, disk[file_path], hashOrder) } :
           /\ files' = after.files
           /\ smells' = after.smells
           /\ outcome' = after.outcome
           /\ analyzed' = IF after.outcome = "ok"
                          THEN [analyzed EXCEPT ![file_path] = disk[file_path]]
                          ELSE analyzed
           /\ IF after.outcome = "ok"
              THEN reads' = 0 /\ result' = <<>> /\ returned' = <<>>
              ELSE UNCHANGED <<reads, result, returned>>
    /\ op' = [name |-> "analyze_file", arg |-> <<file_path>>]
    /\ analyses' = analyses + 1
    /\ UNCHANGED <<disk, hashOrder, writes, probe, workers, engines>>

(***************************************************************************)
(* compute_project_metrics(docstring_coverage)                             *)
(***************************************************************************)
\* the values of a dict held as a function, in some order
RECURSIVE Values(_)
Values(d) ==
    IF DOMAIN d = {} THEN <<>>
    ELSE LET k == CHOOSE x \in DOMAIN d : TRUE
         IN  <<d[k]>> \o Values([x \in DOMAIN d \ {k} |-> d[x]])

\* Counter(s.severity for s in smells), as a dict
SeverityCounter(ss) ==
    LET present == { ss[i].severity : i \in 1..Len(ss) }
    IN  [sv \in present |->
            Cardinality({ i \in 1..Len(ss) : ss[i].severity = sv })]

\* compute_project_metrics with the plain mean of the files' mi
compute_project_metrics_unweighted(fs, sm, docstring_coverage) ==
    LET fvals == Values(fs)
        n     == Len(fvals)
    IN  [project_mi            |-> IF n = 0 THEN 0
                                   ELSE round(
                                            Sum([i \in 1..n |-> fvals[i].mi]),
                                            n * 100),
         avg_quality_score     |-> IF n = 0 THEN 0
                                   ELSE round(
                                            Sum([i \in 1..n |-> fvals[i].quality_score]),
                                            n * 2000),
         total_files           |-> n,
         total_smells          |-> Len(sm),
         severity_distribution |-> SeverityCounter(sm),
         files                 |-> fs,
         docstring_coverage    |->
             IF docstring_coverage = <<>> THEN <<>>
             ELSE <<round(docstring_coverage[1], 100)>>,
         timestamp             |-> <<>>]

\* compute_project_metrics counting severities over the stored files' smells
compute_project_metrics_perFile(fs, sm, docstring_coverage) ==
    LET fvals == Values(fs)
        n     == Len(fvals)
        total_loc == Sum([i \in 1..n |-> fvals[i].loc])
    IN  [project_mi            |-> IF n = 0 \/ total_loc = 0 THEN 0
                                   ELSE round(
                                            Sum([i \in 1..n |-> fvals[i].mi * fvals[i].loc]),
                                            total_loc * 100),
         avg_quality_score     |-> IF n = 0 THEN 0
                                   ELSE round(
                                            Sum([i \in 1..n |-> fvals[i].quality_score]),
                                            n * 2000),
         total_files           |-> n,
         total_smells          |-> Len(sm),
         severity_distribution |->
             SeverityCounter(Flatten([i \in 1..n |-> fvals[i].smells])),
         files                 |-> fs,
         docstring_coverage    |->
             IF docstring_coverage = <<>> THEN <<>>
             ELSE <<round(docstring_coverage[1], 100)>>,
         timestamp             |-> <<>>]

\* the dict compute_project_metrics returns for self.files = fs,
\* self.smells = sm; rounded values are in tenths
compute_project_metrics(fs, sm, docstring_coverage) ==
    LET total_smells == Len(sm)
        fvals        == Values(fs)
        n            == Len(fvals)
        total_loc    == Sum([i \in 1..n |-> fvals[i].loc])
        \* round(avg_quality, 1)
        avg_quality  == IF n = 0 THEN 0
                        ELSE round(
                                 Sum([i \in 1..n |-> fvals[i].quality_score]),
                                 n * 2000)
        \* round(project_mi, 1)
        project_mi   == IF n = 0 THEN 0
                        ELSE IF total_loc = 0 THEN 0
                        ELSE round(
                                 Sum([i \in 1..n |-> fvals[i].mi * fvals[i].loc]),
                                 total_loc * 100)
    IN  [project_mi            |-> project_mi,
         avg_quality_score     |-> avg_quality,
         total_files           |-> n,
         total_smells          |-> total_smells,
         severity_distribution |-> SeverityCounter(sm),
         files                 |-> fs,
         docstring_coverage    |->
             IF docstring_coverage = <<>> THEN <<>>
             ELSE <<round(docstring_coverage[1], 100)>>,
         timestamp             |-> <<>>]

\* the call dividing by len(self.files) and by total_loc unguarded
ComputeProjectMetrics_unguarded(docstring_coverage) ==
    /\ IF files = <<>> \/ \A p \in DOMAIN files : files[p].loc = 0
       THEN /\ outcome' = "ZeroDivisionError"
            /\ UNCHANGED <<result, returned, reads>>
       ELSE /\ result' = compute_project_metrics(files, smells, docstring_coverage)
            /\ returned' = [arg |-> docstring_coverage, value |-> result']
            /\ outcome' = "ok"
            /\ reads' = Min(2, reads + 1)
    /\ op' = [name |-> "compute_project_metrics", arg |-> docstring_coverage]
    /\ UNCHANGED <<disk, hashOrder, files, smells, analyzed, analyses, writes,
                   probe, workers, engines>>

\* the call handing out again the dict it built for the same stored state
ComputeProjectMetrics_memoized(docstring_coverage) ==
    /\ result' = IF reads >= 1 /\ returned.arg = docstring_coverage
                 THEN result
                 ELSE compute_project_metrics(files, smells, docstring_coverage)
    /\ returned' = [arg |-> docstring_coverage, value |-> result']
    /\ outcome' = "ok"
    /\ reads' = Min(2, reads + 1)
    /\ op' = [name |-> "compute_project_metrics", arg |-> docstring_coverage]
    /\ UNCHANGED <<disk, hashOrder, files, smells, analyzed, analyses, writes,
                   probe, workers, engines>>

\* the call: every division is guarded, so it always returns
ComputeProjectMetrics(docstring_coverage) ==
    /\ result' = compute_project_metrics(files, smells, docstring_coverage)
    /\ returned' = [arg |-> docstring_coverage, value |-> result']
    /\ outcome' = "ok"
    /\ reads' = Min(2, reads + 1)
    /\ op' = [name |-> "compute_project_metrics", arg |-> docstring_coverage]
    /\ UNCHANGED <<disk, hashOrder, files, smells, analyzed, analyses, writes,
                   probe, workers, engines>>

(***************************************************************************)
(* generate_reports(project_metrics, output_directory): stamps the dict    *)
(* it is given and renders it; the caller passes the dict it holds.        *)
(***************************************************************************)
\* the timestamp generate_reports puts into the dict it is given
Stamped(project_metrics) == [project_metrics EXCEPT !.timestamp = <<"now">>]

generate_reports ==
    /\ result # <<>>
    /\ result.timestamp = <<>>
    /\ result' = Stamped(result)
    /\ outcome' = "ok"
    /\ op' = [name |-> "generate_reports", arg |-> <<>>]
    /\ UNCHANGED <<disk, hashOrder, files, smells, returned, analyzed, reads,
                   analyses, writes, probe, workers, engines>>

(***************************************************************************)
(* analyze_project(project_path): analyze_file for every file that rglob   *)
(* yields, in the order it yields them, then compute_project_metrics; an   *)
(* exception of analyze_file ends the loop and the call.                   *)
(***************************************************************************)
RECURSIVE AnalyzeAll(_, _, _)
AnalyzeAll(self, listing, order) ==
    IF listing = <<>> \/ self.outcome # "ok" THEN self
    ELSE AnalyzeAll(AfterAnalyze(self, Head(listing), disk[Head(listing)], order),
                    Tail(listing), order)

\* the orders in which rglob can yield the files
Listings == { l \in [1..Cardinality(Paths) -> Paths] :
                  \A i, j \in DOMAIN l : i # j => l[i] # l[j] }

\* the files of `listing` that analyze_file was called on and stored
Stored(listing) ==
    { listing[i] : i \in { k \in DOMAIN listing :
                             \A j \in 1..k : Parses(disk[listing[j]]) } }

analyze_project(listing) ==
    /\ analyses + Len(listing) <= MaxAnalyses
    /\ \E after \in { AnalyzeAll([files |-> files, smells |-> smells,
                                   outcome |-> "ok"],
                                  listing, hashOrder) } :
           /\ files' = after.files
           /\ smells' = after.smells
           /\ outcome' = after.outcome
           /\ IF after.outcome = "ok"
              THEN /\ result' = compute_project_metrics(after.files, after.smells, <<>>)
                   /\ returned' = [arg |-> <<>>, value |-> result']
                   /\ reads' = 1
              ELSE IF Stored(listing) # {}
                   THEN reads' = 0 /\ result' = <<>> /\ returned' = <<>>
                   ELSE UNCHANGED <<reads, result, returned>>
    /\ analyzed' = [p \in Paths |-> IF p \in Stored(listing) THEN disk[p]
                                    ELSE analyzed[p]]
    /\ op' = [name |-> "analyze_project", arg |-> listing]
    /\ analyses' = analyses + Len(listing)
    /\ UNCHANGED <<disk, hashOrder, writes, probe, workers, engines>>

(***************************************************************************)
(* The environment rewrites a source file that has been analyzed (a        *)
(* rewrite before the first analysis is another initial content).          *)
(***************************************************************************)
write_file(file_path, c) ==
    /\ writes < MaxWrites
    /\ analyzed[file_path] # "none"
    /\ c # disk[file_path]
    /\ disk' = [disk EXCEPT ![file_path] = c]
    /\ writes' = writes + 1
    /\ op' = [name |-> "write_file", arg |-> <<file_path>>]
    /\ outcome' = "ok"
    /\ UNCHANGED <<hashOrder, files, smells, result, returned, analyzed, reads,
                   analyses, probe, workers, engines>>

Next ==
    \/ \E p \in Paths : analyze_file(p)
    \/ \E l \in Listings : analyze_project(l)
    \/ \E cov \in DocCoverages : ComputeProjectMetrics(cov)
    \/ generate_reports
    \/ \E p \in Paths, c \in Contents : write_file(p, c)

Spec == Init /\ [][Next]_vars

(***************************************************************************)
(* calculate_mi called directly, on a grid of arguments and on the         *)
(* measures of the source files above.                                     *)
(***************************************************************************)
MaxHvExp == 14
MaxCcHundreds == 4
MaxLocExp == 16

\* halstead volumes in milli units: 0, and 1.0 doubled up to MaxHvExp times
Volumes == {0} \cup { 1000 * Pow2(k) : k \in 0..MaxHvExp }
Complexities == { 1 + 100 * k : k \in 0..MaxCcHundreds }
StatementCounts == {0} \cup { Pow2(k) : k \in 0..MaxLocExp }

\* what analyze_file measures of a source file before it calls calculate_mi
Measures ==
    [c \in { x \in Sources : Parses(x) } |->
        [loc |-> Len(SelectSeq(walk(Tree(c)), IsStmt)),
         cc  |-> cyclomatic_complexity(Tree(c)),
         hv  |-> halstead_volume(Tree(c))]]

InitMI ==
    /\ Init
    /\ disk = [p \in Paths |-> "empty"]
    /\ hashOrder = <<"json", "os", "re", "sys">>

CalculateMI(hv, cc, loc) ==
    /\ probe' = [hv |-> hv, cc |-> cc, loc |-> loc,
                 mi |-> calculate_mi(hv, cc, loc)]
    /\ UNCHANGED <<mainVars, workers, engines>>

MeasureMI(c) ==
    /\ Parses(c)
    /\ probe' = [hv |-> Measures[c].hv, cc |-> Measures[c].cc,
                 loc |-> Measures[c].loc,
                 mi |-> calculate_mi(Measures[c].hv, Measures[c].cc,
                                     Measures[c].loc)]
    /\ UNCHANGED <<mainVars, workers, engines>>

NextMI ==
    \/ \E hv \in Volumes, cc \in Complexities, loc \in StatementCounts :
           CalculateMI(hv, cc, loc)
    \/ \E c \in Sources : MeasureMI(c)

SpecMI == InitMI /\ [][NextMI]_vars

(***************************************************************************)
(* analyze_file run concurrently, one run per path.  A run parses and      *)
(* builds its FileMetrics in local state (lines 74-331), stores it in      *)
(* self.files (line 333) and extends self.smells (line 334); the runs      *)
(* share the analyzer without a lock, and the steps of other runs fall     *)
(* between any two of these.                                               *)
(***************************************************************************)
\* line 334 with `=` where the list is extended
Extended_assigning(self, metrics) ==
    [self EXCEPT !.smells = metrics.smells]

\* self.files[file_path] = metrics
Inserted(self, file_path, metrics) ==
    [self EXCEPT !.files = Put(self.files, file_path, metrics)]

\* self.smells.extend(metrics.smells)
Extended(self, metrics) ==
    [self EXCEPT !.smells = self.smells \o metrics.smells]

\* the run for file_path reads and parses the file and builds its metrics
Build(file_path) ==
    /\ workers[file_path].pc = "idle"
    /\ workers' = [workers EXCEPT ![file_path] =
           IF Parses(disk[file_path])
           THEN [pc |-> "built",
                 metrics |-> Analysis[disk[file_path]][file_path][hashOrder]]
           ELSE [pc |-> "raised", metrics |-> <<>>]]
    /\ UNCHANGED <<mainVars, probe, engines>>

\* the run for file_path stores what it built
Store(file_path) ==
    /\ workers[file_path].pc = "built"
    /\ files' = Inserted([files |-> files, smells |-> smells], file_path,
                         workers[file_path].metrics).files
    /\ analyzed' = [analyzed EXCEPT ![file_path] = disk[file_path]]
    /\ workers' = [workers EXCEPT ![file_path].pc = "stored"]
    /\ UNCHANGED <<disk, hashOrder, smells, result, op, outcome, returned, reads,
                   analyses, writes, probe, engines>>

\* the run for file_path extends the project smell list and returns
Extend(file_path) ==
    /\ workers[file_path].pc = "stored"
    /\ smells' = Extended([files |-> files, smells |-> smells],
                          workers[file_path].metrics).smells
    /\ workers' = [workers EXCEPT ![file_path].pc = "done"]
    /\ UNCHANGED <<disk, hashOrder, files, result, op, outcome, returned, reads,
                   analyzed, analyses, writes, probe, engines>>

NextConcurrent ==
    \/ \E p \in Paths : Build(p)
    \/ \E p \in Paths : Store(p)
    \/ \E p \in Paths : Extend(p)

SpecConcurrent == Init /\ [][NextConcurrent]_vars

(***************************************************************************)
(* The smell detectors of analyze_file (lines 84-331) run on generated     *)
(* files: each step parses one file, built from a few sizes, and keeps     *)
(* the smells the detectors yield for it.                                  *)
(***************************************************************************)
MaxBody == 52

\* the path the generated file is analyzed under
GeneratedPath == "a.py"

\* n `pass` statements on the lines first, first + 1, ...
PassBlock(first, n) == [j \in 1..n |-> Pass(first + j - 1)]

\* statement counts of the method m next to the thresholds 20, 25, 35, 50
MethodCounts == {3, 20, 21, 25, 26, 35, 36, 50, 51}

(* functions.py: a function of 1 + n1 statements and a method of 2 + n2
     def f() -> None:
         pass                  (n1 times)
     class K:
         def m(self) -> None:
             if self:
                 pass          (n2 times)
*)
Tree_functions(n1, n2) ==
    Module(<< FunctionDef("f", 1, <<>>, PassBlock(2, n1), <<Constant>>),
              ClassDef("K", n1 + 2, <<
                  FunctionDef("m", n1 + 3, <<arg("self", <<>>)>>,
                      << If(n1 + 4, NameL("self"), PassBlock(n1 + 5, n2), <<>>) >>,
                      <<Constant>>) >>) >>)

MaxMethods == 17

\* statement counts of the class K next to the thresholds 100 and 200
ClassCounts == {40, 100, 101, 200, 201}

(* classes.py: a class of `methods` methods and `count` statements in all
     class K:
         x = 0                 (count - 1 - 2 * methods times)
         def m1(self) -> None:
             pass
         ...                   (methods times)
     class Small:
         pass
*)
Tree_classes(methods, count) ==
    LET fields == count - 1 - 2 * methods
    IN  Module(<< ClassDef("K", 1,
                      [j \in 1..fields |-> Assign(1 + j, <<NameS("x")>>, Constant)]
                      \o [i \in 1..methods |->
                             FunctionDef("m" \o ToString(i), fields + 2 * i,
                                         <<arg("self", <<>>)>>,
                                         <<Pass(fields + 2 * i + 1)>>, <<Constant>>)]),
                  ClassDef("Small", count + 1, <<Pass(count + 2)>>) >>)

MaxNesting == 8

\* the compound statements a chain of nested blocks cycles through
ChainKinds == <<"If", "For", "While", "With", "Try">>

\* where a compound statement holds the block nested in it: its body, or
\* its else (finally, for a try) after a body of one `pass`
Slots == {"body", "orelse"}

\* the file's statements around a chain
Wraps == {"module", "function", "method"}

\* one compound statement of `kind` at `line` holding `inner`; inner starts
\* on line + 1 in the body of if/for/while/with, on line + 3 otherwise:
\*     try:             if x:            try:
\*         pass             pass             pass
\*     except E:        else:            finally:
\*         inner            inner            inner
Compound(kind, slot, line, inner) ==
    IF kind = "With"
    THEN With(line, <<[Node("withitem") EXCEPT !.exprs = <<NameL("x")>>]>>, inner)
    ELSE IF kind = "Try"
    THEN IF slot = "body"
         THEN Try(line, <<Pass(line + 1)>>,
                  <<ExceptHandler(line + 2, <<NameL("E")>>, inner)>>, <<>>, <<>>)
         ELSE Try(line, <<Pass(line + 1)>>, <<>>, <<>>, inner)
    ELSE LET body   == IF slot = "body" THEN inner ELSE <<Pass(line + 1)>>
             orelse == IF slot = "body" THEN <<>> ELSE inner
         IN  IF kind = "If" THEN If(line, NameL("x"), body, orelse)
             ELSE IF kind = "While" THEN While(line, NameL("x"), body, orelse)
             ELSE For(line, NameS("i"), NameL("x"), body, orelse)

InnerOffset(kind, slot) ==
    IF kind = "Try" \/ (slot = "orelse" /\ kind # "With") THEN 3 ELSE 1

\* a chain of `depth` compound statements, one nested in the other, around
\* the statement `print(x)`; block is the chain, next the line after it
RECURSIVE Chain(_, _, _, _)
Chain(depth, first, slot, line) ==
    IF depth = 0
    THEN [block |-> <<Expr(line, Call(NameL("print"), <<NameL("x")>>))>>,
          next |-> line + 1]
    ELSE LET kind  == ChainKinds[first]
             inner == Chain(depth - 1, (first % Len(ChainKinds)) + 1, slot,
                            line + InnerOffset(kind, slot))
         IN  [block |-> <<Compound(kind, slot, line, inner.block)>>,
              next |-> inner.next]

(* nesting.py: two chains of d1 and d2 compound statements, one after the
   other, in one of
     x = 0          def f(x) -> None:        class K:
     <chains>           <chains>                 def m(self, x) -> None:
                                                     <chains>
*)
Tree_nesting(d1, d2, first, slot, wrap) ==
    LET top == IF wrap = "module" THEN 2 ELSE IF wrap = "function" THEN 2 ELSE 3
        c1 == Chain(d1, first, slot, top)
        c2 == Chain(d2, first, slot, c1.next)
        stmts == c1.block \o c2.block
    IN  Module(IF wrap = "module" THEN <<Assign(1, <<NameS("x")>>, Constant)>> \o stmts
               ELSE IF wrap = "function"
               THEN <<FunctionDef("f", 1, <<arg("x", <<>>)>>, stmts, <<Constant>>)>>
               ELSE <<ClassDef("K", 1, <<
                        FunctionDef("m", 2, <<arg("self", <<>>), arg("x", <<>>)>>,
                                    stmts, <<Constant>>)>>)>>)

MaxParams == 8

\* which parameters of the generated function carry an annotation
Hints == {"none", "first", "last", "all"}

\* the generated function is a module-level one, or a method whose first
\* parameter is self
Owners == {"function", "method"}

(* parameters.py: a function of `count` parameters
     def f(p1, p2: int, ...) -> None:       class K:
         pass                                   def f(self, p2, ...):
                                                    pass
*)
Tree_parameters(count, hints, returns, owner) ==
    LET annotated(i) == \/ hints = "all"
                        \/ hints = "first" /\ i = 1
                        \/ hints = "last" /\ i = count
        params == [i \in 1..count |->
                     arg(IF owner = "method" /\ i = 1 THEN "self"
                         ELSE "p" \o ToString(i),
                         IF annotated(i) THEN <<NameL("int")>> ELSE <<>>)]
        top == IF owner = "method" THEN 2 ELSE 1
        fn == FunctionDef("f", top, params, <<Pass(top + 1)>>,
                          IF returns THEN <<Constant>> ELSE <<>>)
    IN  Module(IF owner = "method" THEN <<ClassDef("K", 1, <<fn>>)>> ELSE <<fn>>)

\* the elements of a sequence
Range(q) == { q[i] : i \in DOMAIN q }

\* the modules a generated file may import, in the order it imports them
Importable == <<"json", "os", "re", "sys">>

\* how the generated file writes an import of the module os:
\*     import os        import os.path        from lib import os
ImportForms == {"plain", "dotted", "from"}

\* the elements of `order` that are in S, as a sequence
Listed(S, order) == SelectSeq(order, LAMBDA x : x \in S)

\* the orders in which a set of names can iterate: every permutation
IterationOrders(S) ==
    { order \in [1..Cardinality(S) -> S] :
        \A i, j \in 1..Cardinality(S) : order[i] = order[j] => i = j }

(* imports.py: imports the modules of `imported`, reads those of `read`
   and assigns to those of `bound`
     import json               (one line per module of imported)
     print(json.dumps(0))      (one line per module of read)
     json = 0                  (one line per module of bound)
*)
Tree_imports(imported, read, bound, form) ==
    LET is == Listed(imported, Importable)
        rs == Listed(read, Importable)
        bs == Listed(bound, Importable)
    IN  Module([i \in 1..Len(is) |->
                   IF form = "from" THEN ImportFrom(i, <<alias(<<is[i]>>)>>)
                   ELSE IF form = "dotted" THEN Import(i, <<alias(<<is[i], "path">>)>>)
                   ELSE Import(i, <<alias(<<is[i]>>)>>)]
               \o [i \in 1..Len(rs) |->
                      Expr(Len(is) + i,
                           Call(NameL("print"),
                                <<Call([Attribute(NameL(rs[i]), "dumps")
                                          EXCEPT !.ctx = "Load"],
                                       <<Constant>>)>>))]
               \o [i \in 1..Len(bs) |->
                      Assign(Len(is) + Len(rs) + i, <<NameS(bs[i])>>, Constant)])

MaxLocals == 17

\* how the generated function binds its local names:
\*     v1 = 0        v1: int = 0        v1, v2 = a
\* or each of the three in turn
BindingStyles == {"assign", "annotated", "tuple", "mixed"}

\* the statement on `line` that binds the i-th local name (with the next
\* one, for an unpacking that has a next one)
Binding(style, i, count, line) ==
    LET form == IF style = "mixed"
                THEN <<"annotated", "tuple", "assign">>[(i % 3) + 1] ELSE style
        v(j) == NameS("v" \o ToString(j))
    IN  IF form = "annotated"
        THEN AnnAssign(line, v(i), NameL("int"), <<Constant>>)
        ELSE IF form = "tuple" /\ i < count
        THEN Assign(line, <<TupleS(<<v(i), v(i + 1)>>)>>, NameL("a"))
        ELSE Assign(line, <<v(i)>>, Constant)

(* locals.py: a function binding `count` different local names, each of
   them a second time when `again`
     def f(a) -> None:
         a.x = 0
         for i in a:
             a.x += 1
         v1 = 0               (one line per name, in the binding style)
         v1 = 0               (when again; one line per name)
*)
Tree_locals(count, style, again) ==
    Module(<< FunctionDef("f", 1, <<arg("a", <<>>)>>,
        << Assign(2, <<[Attribute(NameL("a"), "x") EXCEPT !.ctx = "Store"]>>, Constant),
           For(3, NameS("i"), NameL("a"),
               << [Stmt("AugAssign", 4) EXCEPT
                      !.targets = <<[Attribute(NameL("a"), "x") EXCEPT !.ctx = "Store"]>>,
                      !.exprs = <<Constant>>] >>, <<>>) >>
        \o [i \in 1..count |-> Binding(style, i, count, 4 + i)]
        \o [i \in 1..(IF again THEN count ELSE 0) |->
               Assign(4 + count + i, <<NameS("v" \o ToString(i))>>, Constant)],
        <<Constant>>) >>)

MaxForeign == 7
MaxSelf == 4

\* n expression statements `base.a` on the lines first, first + 1, ...
Accesses(base, first, n) ==
    [j \in 1..n |-> Expr(first + j - 1,
                         [Attribute(NameL(base), "a") EXCEPT !.ctx = "Load"])]

(* envy.py: a method reading attributes of two foreign objects and of self
     class K:
         def m(self, other, peer) -> None:
             other.a           (foreign times)
             peer.a            (second times)
             self.a            (own times)
             pass
*)
Tree_envy(foreign, second, own) ==
    Module(<< ClassDef("K", 1, <<
        FunctionDef("m", 2,
            <<arg("self", <<>>), arg("other", <<>>), arg("peer", <<>>)>>,
            Accesses("other", 3, foreign)
                \o Accesses("peer", 3 + foreign, second)
                \o Accesses("self", 3 + foreign + second, own)
                \o <<Pass(3 + foreign + second + own)>>,
            <<Constant>>) >>) >>)

\* what a generated handler clause catches:
\*     except:    except Exception:    except ValueError:    except (Exception, ValueError):
HandlerTypes == {"bare", "Exception", "ValueError", "tuple"}

\* what a generated handler clause does:
\*     pass       pass; pass (on two lines)       print(0)       raise
HandlerBodies == {"pass", "two", "call", "raise"}

\* handler.type of a generated clause, a sequence of no or one expression
HandlerType(type) ==
    IF type = "bare" THEN <<>>
    ELSE IF type = "tuple"
    THEN <<[Node("Tuple") EXCEPT !.ctx = "Load",
                !.exprs = <<NameL("Exception"), NameL("ValueError")>>]>>
    ELSE <<NameL(type)>>

\* handler.body of a generated clause, from line `first`
HandlerBody(does, first) ==
    IF does = "pass" THEN <<Pass(first)>>
    ELSE IF does = "two" THEN <<Pass(first), Pass(first + 1)>>
    ELSE IF does = "call" THEN <<Expr(first, Call(NameL("print"), <<Constant>>))>>
    ELSE <<Raise(first, <<>>)>>

\* the clauses of a generated try statement: a sequence of one or two
\* <<type, body>> pairs, a bare except only as the last one
HandlerLists ==
    { <<h>> : h \in HandlerTypes \X HandlerBodies }
        \cup { <<h1, h2>> : h1 \in (HandlerTypes \ {"bare"}) \X HandlerBodies,
                            h2 \in HandlerTypes \X HandlerBodies }

\* the line of the i-th clause of a try statement whose first is on `first`
RECURSIVE HandlerLine(_, _, _)
HandlerLine(hs, i, first) ==
    IF i = 1 THEN first
    ELSE HandlerLine(hs, i - 1, first) + 1
             + Len(HandlerBody(hs[i - 1][2], 0))

(* handlers.py: one try statement, at module level or in a function
     def f() -> None:
         try:
             pass
         except ValueError:
             pass
         except:
             print(0)
*)
Tree_handlers(hs, wrap) ==
    LET top == IF wrap = "module" THEN 1 ELSE 2
        try == Try(top, <<Pass(top + 1)>>,
                   [i \in 1..Len(hs) |->
                      ExceptHandler(HandlerLine(hs, i, top + 2), HandlerType(hs[i][1]),
                                    HandlerBody(hs[i][2],
                                                HandlerLine(hs, i, top + 2) + 1))],
                   <<>>, <<>>)
    IN  Module(IF wrap = "module" THEN <<try>>
               ELSE <<FunctionDef("f", 1, <<>>, <<try>>, <<Constant>>)>>)

MaxAfter == 2

\* the block of the generated function that holds the terminator: the
\* function body itself, or a block of a compound statement in it
\*     if x:    if x:     for i in x:   while x:   with x:   try:       try:         try:
\*         B        pass      B             B          B         B          pass         pass
\*              else:                                         finally:   except E:    finally:
\*                  B                                             pass       B            B
Blocks == {"function", "if", "else", "for", "while", "with", "try", "handler", "finally"}

\* the statement that ends the block's control flow, if any
Terminators(where) ==
    {"none", "Return", "Raise"}
        \cup (IF where \in {"for", "while"} THEN {"Break", "Continue"} ELSE {})

\* x = 0 on `line`
AssignX(line) == Assign(line, <<NameS("x")>>, Constant)

\* the block B from line `first`: an assignment, the terminator, and
\* `after` more assignments
TerminatedBlock(term, after, first) ==
    <<AssignX(first)>>
        \o (IF term = "none" THEN <<>>
            ELSE IF term = "Return" THEN <<Return(first + 1, <<NameL("x")>>)>>
            ELSE IF term = "Raise" THEN <<Raise(first + 1, <<NameL("x")>>)>>
            ELSE <<Stmt(term, first + 1)>>)
        \o [j \in 1..after |->
               AssignX(first + j + (IF term = "none" THEN 0 ELSE 1))]

\* the line B starts on in a compound statement on line c
BlockStart(where, c) ==
    IF where \in {"else", "handler", "finally"} THEN c + 3 ELSE c + 1

\* the compound statement on line c that holds the block B
Holder(where, c, B) ==
    IF where = "if" THEN If(c, NameL("x"), B, <<>>)
    ELSE IF where = "else" THEN If(c, NameL("x"), <<Pass(c + 1)>>, B)
    ELSE IF where = "for" THEN For(c, NameS("i"), NameL("x"), B, <<>>)
    ELSE IF where = "while" THEN While(c, NameL("x"), B, <<>>)
    ELSE IF where = "with"
    THEN With(c, <<[Node("withitem") EXCEPT !.exprs = <<NameL("x")>>]>>, B)
    ELSE IF where = "try"
    THEN Try(c, B, <<>>, <<>>, <<Pass(c + Len(B) + 2)>>)
    ELSE IF where = "handler"
    THEN Try(c, <<Pass(c + 1)>>, <<ExceptHandler(c + 2, <<NameL("E")>>, B)>>,
             <<>>, <<>>)
    ELSE Try(c, <<Pass(c + 1)>>, <<>>, <<>>, B)

\* the line after the compound statement on line c
HolderEnd(where, c, B) ==
    BlockStart(where, c) + Len(B) + (IF where = "try" THEN 2 ELSE 0)

(* unreachable.py: a function whose body is the block B, or holds it in a
   compound statement, after a return when `outer`, before `tail` more
   assignments
     def f(x) -> None:
         x = 0
         return x              (when outer)
         while x:
             x = 0
             break
             x = 0             (after times)
         x = 0                 (tail times)
*)
Tree_unreachable(where, term, after, outer, tail) ==
    LET c == IF outer THEN 4 ELSE 3
        B == TerminatedBlock(term, after, BlockStart(where, c))
    IN  Module(<< FunctionDef("f", 1, <<arg("x", <<>>)>>,
            IF where = "function" THEN TerminatedBlock(term, after, 2)
            ELSE <<AssignX(2)>>
                     \o (IF outer THEN <<Return(3, <<NameL("x")>>)>> ELSE <<>>)
                     \o <<Holder(where, c, B)>>
                     \o [j \in 1..tail |-> AssignX(HolderEnd(where, c, B) + j - 1)],
            <<Constant>>) >>)

InitDetectors ==
    /\ Init
    /\ disk = [p \in Paths |-> "empty"]

\* what the detectors yield for tree = ast.parse(content), with the
\* parameters the file was generated from
Detected(family, params, tree) ==
    [family |-> family, params |-> params,
     nesting |-> find_max_nesting(tree, 0),
     smells |-> DetectSmells(tree, GeneratedPath, hashOrder)]

AnalyzeFunctions(n1, n2) ==
    /\ probe = <<>>
    /\ probe' = Detected("functions", <<n1, n2>>, Tree_functions(n1, n2))
    /\ UNCHANGED <<mainVars, workers, engines>>

AnalyzeClasses(methods, count) ==
    /\ probe = <<>>
    /\ probe' = Detected("classes", <<methods, count>>,
                          Tree_classes(methods, count))
    /\ UNCHANGED <<mainVars, workers, engines>>

AnalyzeNesting(d1, d2, first, slot, wrap) ==
    /\ probe = <<>>
    /\ probe' = Detected("nesting", <<d1, d2, first, slot, wrap>>,
                          Tree_nesting(d1, d2, first, slot, wrap))
    /\ UNCHANGED <<mainVars, workers, engines>>

AnalyzeParameters(count, hints, returns, owner) ==
    /\ probe = <<>>
    /\ probe' = Detected("parameters", <<count, hints, returns, owner>>,
                          Tree_parameters(count, hints, returns, owner))
    /\ UNCHANGED <<mainVars, workers, engines>>

\* `order` is the order in which the process iterates the names of the
\* file that are imported and not read
AnalyzeImports(imported, read, bound, form, order) ==
    /\ probe = <<>>
    /\ probe' = [family |-> "imports",
                 params |-> <<imported, read, bound, form, order>>,
                 nesting |-> find_max_nesting(Tree_imports(imported, read, bound, form), 0),
                 smells |-> DetectSmells(Tree_imports(imported, read, bound, form),
                                         GeneratedPath, order)]
    /\ UNCHANGED <<mainVars, workers, engines>>

AnalyzeLocals(count, style, again) ==
    /\ probe = <<>>
    /\ probe' = Detected("locals", <<count, style, again>>,
                          Tree_locals(count, style, again))
    /\ UNCHANGED <<mainVars, workers, engines>>

AnalyzeEnvy(foreign, second, own) ==
    /\ probe = <<>>
    /\ probe' = Detected("envy", <<foreign, second, own>>,
                          Tree_envy(foreign, second, own))
    /\ UNCHANGED <<mainVars, workers, engines>>

AnalyzeHandlers(hs, wrap) ==
    /\ probe = <<>>
    /\ probe' = Detected("handlers", <<hs, wrap>>, Tree_handlers(hs, wrap))
    /\ UNCHANGED <<mainVars, workers, engines>>

AnalyzeUnreachable(where, term, after, outer, tail) ==
    /\ probe = <<>>
    /\ probe' = Detected("unreachable", <<where, term, after, outer, tail>>,
                          Tree_unreachable(where, term, after, outer, tail))
    /\ UNCHANGED <<mainVars, workers, engines>>

NextDetectors ==
    \/ \E n1 \in 1..MaxBody, c \in MethodCounts : AnalyzeFunctions(n1, c - 2)
    \/ \E methods \in 0..MaxMethods, count \in ClassCounts :
           AnalyzeClasses(methods, count)
    \/ \E d1 \in 0..MaxNesting, d2 \in 0..MaxNesting, first \in DOMAIN ChainKinds,
          slot \in Slots, wrap \in Wraps :
           AnalyzeNesting(d1, d2, first, slot, wrap)
    \/ \E count \in 0..MaxParams, returns \in BOOLEAN :
           \E hints \in IF count = 0 THEN {"none"} ELSE Hints,
              owner \in IF count = 0 THEN {"function"} ELSE Owners :
               AnalyzeParameters(count, hints, returns, owner)
    \/ \E imported \in SUBSET Range(Importable), read \in SUBSET Range(Importable),
          form \in ImportForms :
           \E bound \in {{}, imported}, order \in IterationOrders(imported \ read) :
               AnalyzeImports(imported, read, bound, form, order)
    \/ \E count \in 0..MaxLocals, style \in BindingStyles, again \in BOOLEAN :
           AnalyzeLocals(count, style, again)
    \/ \E foreign \in 0..MaxForeign, second \in 0..MaxForeign, own \in 0..MaxSelf :
           AnalyzeEnvy(foreign, second, own)
    \/ \E hs \in HandlerLists, wrap \in Wraps \ {"method"} : AnalyzeHandlers(hs, wrap)
    \/ \E where \in Blocks, after \in 0..MaxAfter :
           \E term \in Terminators(where),
              outer \in IF where = "function" THEN {FALSE} ELSE BOOLEAN,
              tail \in IF where = "function" THEN {0} ELSE {0, 1} :
               AnalyzeUnreachable(where, term, after, outer, tail)

SpecDetectors == InitDetectors /\ [][NextDetectors]_vars

(***************************************************************************)
(* The auto-fix engine (autofix_engine.py).  A file's text is the sequence *)
(* of its lines and whether the last one ends with a newline.  The files   *)
(* here are written in a fragment of Python that ast.parse is modelled     *)
(* for: simple statements at module level and functions whose body is a    *)
(* run of simple statements, one statement per line.                       *)
(***************************************************************************)
Text(lines, newline) == [lines |-> lines, newline |-> newline]

\* str.splitlines() of a text (no text of the model ends with an empty
\* line that has no newline)
splitlines(text) == text.lines

\* "\n".join(lines) + "\n": for no lines it is one empty line
JoinLines(lines) == Text(IF lines = <<>> THEN <<"">> ELSE lines, TRUE)

\* the statements a line of its own at module level can be
ModuleLines == {"import os", "print(1)"}

\* the lines that are no statement, at module level and in a function
\* body alike: the empty line and the comment apply_fixes writes
CommentLine == "# AUTO-FIX: unused import"
BlankLines == {"", CommentLine}

\* the statements a line of a function body can be
BodyLines == {"    pass", "    return a", "    return p"}

\* the def lines, with the parameters (annotated or not) and whether a
\* return annotation follows
Signatures ==
    [line \in {"def f(a, b, c, d, e):", "def f(a, b, c, d, e) -> int:",
               "def g(a, b, c, d, e) -> int:", "def f(p: int) -> int:",
               "def g(p: int) -> int:"} |->
        [name |-> IF line \in {"def g(a, b, c, d, e) -> int:", "def g(p: int) -> int:"}
                  THEN "g" ELSE "f",
         args |-> IF line \in {"def f(p: int) -> int:", "def g(p: int) -> int:"}
                  THEN <<arg("p", <<NameL("int")>>)>>
                  ELSE <<arg("a", <<>>), arg("b", <<>>), arg("c", <<>>),
                         arg("d", <<>>), arg("e", <<>>)>>,
         returns |-> IF line = "def f(a, b, c, d, e):" THEN <<>>
                     ELSE <<NameL("int")>>]]

\* the statement a line of the fragment is
Statement(line, lineno) ==
    IF line = "import os" THEN Import(lineno, <<alias(<<"os">>)>>)
    ELSE IF line = "print(1)" THEN Expr(lineno, Call(NameL("print"), <<Constant>>))
    ELSE IF line = "    pass" THEN Pass(lineno)
    ELSE IF line = "    return a" THEN Return(lineno, <<NameL("a")>>)
    ELSE Return(lineno, <<NameL("p")>>)

\* how many lines from the i-th on belong to a function body: its
\* statements and the lines between them that are no statement, up to the
\* last statement of the body
RECURSIVE BodyRun(_, _)
BodyRun(lines, i) ==
    IF i > Len(lines) THEN 0
    ELSE IF lines[i] \in BodyLines THEN 1 + BodyRun(lines, i + 1)
    ELSE IF lines[i] \in BlankLines /\ BodyRun(lines, i + 1) > 0
    THEN 1 + BodyRun(lines, i + 1)
    ELSE 0

\* the statements of the function body that is lines[from..to]
RECURSIVE BodyOf(_, _, _)
BodyOf(lines, from, to) ==
    IF from > to THEN <<>>
    ELSE (IF lines[from] \in BodyLines THEN <<Statement(lines[from], from)>> ELSE <<>>)
         \o BodyOf(lines, from + 1, to)

\* ast.parse on the lines from the i-th on: whether they are statements of
\* the fragment (a def line without a body, an indented line outside a
\* function and any other line are a SyntaxError), and the statements
RECURSIVE ParseFrom(_, _)
ParseFrom(lines, i) ==
    IF i > Len(lines) THEN [ok |-> TRUE, body |-> <<>>]
    ELSE LET n    == BodyRun(lines, i + 1)
             rest == ParseFrom(lines, IF lines[i] \in DOMAIN Signatures
                                      THEN i + 1 + n ELSE i + 1)
         IN  IF ~rest.ok \/ lines[i] \in BlankLines THEN rest
             ELSE IF lines[i] \in ModuleLines
             THEN [rest EXCEPT !.body = <<Statement(lines[i], i)>> \o @]
             ELSE IF lines[i] \in DOMAIN Signatures /\ n > 0
             THEN [rest EXCEPT !.body =
                      << FunctionDef(Signatures[lines[i]].name, i,
                                     Signatures[lines[i]].args,
                                     BodyOf(lines, i + 1, i + n),
                                     Signatures[lines[i]].returns) >> \o @]
             ELSE [ok |-> FALSE, body |-> <<>>]

\* whether ast.parse(text) returns
ParsesText(text) == ParseFrom(splitlines(text), 1).ok

\* ast.parse(text), for a text that parses
ParseText(text) == Module(ParseFrom(splitlines(text), 1).body)

\* node.end_lineno: the line of the last statement below the node (every
\* statement of the fragment is on one line)
end_lineno(node) ==
    LET w == walk(node)
    IN  SetMax({ w[i].lineno : i \in 1..Len(w) })

\* s[lo:hi] of a Python list
Slice(s, lo, hi) ==
    LET from == Min(Max(lo, 0), Len(s))
        to   == Min(Max(hi, from), Len(s))
    IN  SubSeq(s, from + 1, to)

\* _get_node_source, as the lines that it joins
get_node_source(source_lines, node) ==
    Slice(source_lines, node.lineno - 1, end_lineno(node))

\* _replace_node_source; new_code is given as new_code.splitlines()
replace_node_source(source_lines, node, new_code) ==
    Slice(source_lines, 0, node.lineno - 1) \o new_code
        \o Slice(source_lines, end_lineno(node), Len(source_lines))

\* whether smell.node_name, kept as the pieces of the string, is the
\* identifier `name` (a node_name of several pieces holds ", " or ".")
IsName(node_name, name) == node_name = <<name>>

\* _find_target_node: no or one node
find_target_node(tree, smell) ==
    LET w == walk(tree)
        hits == { i \in 1..Len(w) :
                    /\ w[i].kind \in {"FunctionDef", "AsyncFunctionDef", "ClassDef"}
                    /\ ~(smell.node_name # <<>> /\ ~IsName(smell.node_name, w[i].name))
                    /\ (w[i].lineno - smell.line) \in -5..5 }
    IN  IF hits = {} THEN <<>>
        ELSE <<w[CHOOSE i \in hits : \A j \in hits : i <= j]>>

\* the kinds of answer _get_ai_fix can give for a function: None, or code
\* that is shorter than, as long as, or longer than the three lines of the
\* function it is asked to fix (the longer one with an empty line in its
\* body), or code that is no Python
Answers == {"none", "shorter", "same", "longer", "broken"}

\* fixed_src.splitlines() for an answer about the function `name`
FixedSource(name, answer) ==
    LET head == "def " \o name \o "(p: int) -> int:"
    IN  CASE answer = "shorter" -> <<head, "    return p">>
          [] answer = "same"    -> <<head, "    pass", "    return p">>
          [] answer = "longer"  -> <<head, "    pass", "", "    return p">>
          [] answer = "broken"  -> <<"def " \o name \o "(:">>
          [] OTHER              -> <<>>

\* the default of allowed_types in apply_ai_fixes
DefaultAllowedTypes ==
    {"long_method", "long_parameter_list", "missing_type_hints", "unused_imports"}

\* an AutoFix; original_code and fixed_code are held as their lines
AutoFix(smell, original_code, fixed_code, applied, reason) ==
    [file |-> smell.file, line |-> smell.line, smell_type |-> smell.type,
     node_name |-> smell.node_name, original_code |-> original_code,
     fixed_code |-> fixed_code, applied |-> applied, reason |-> reason]

\* the files of the smells, in the order smells_by_file gets its keys
RECURSIVE FilesOf(_)
FilesOf(all_smells) ==
    IF all_smells = <<>> THEN <<>>
    ELSE LET rest == FilesOf(SubSeq(all_smells, 1, Len(all_smells) - 1))
             file == all_smells[Len(all_smells)].file
         IN  IF \E k \in 1..Len(rest) : rest[k] = file THEN rest ELSE Append(rest, file)

\* the smells of one file, in their order
SmellsOf(all_smells, file) == SelectSeq(all_smells, LAMBDA smell : smell.file = file)

\* the loop of apply_ai_fixes over the smells of a file, from the i-th on,
\* up to the next request to the AI: the index of the first smell whose
\* type is allowed and for which _find_target_node finds a node, or one
\* more than the number of smells when the loop ends
RECURSIVE NextRequest(_, _, _, _)
NextRequest(tree, file_smells, allowed, i) ==
    IF i > Len(file_smells) THEN i
    ELSE IF /\ file_smells[i].type \in allowed
            /\ find_target_node(tree, file_smells[i]) # <<>>
    THEN i
    ELSE NextRequest(tree, file_smells, allowed, i + 1)

\* the loop of apply_ai_fixes for one smell, once the AI has answered:
\* cur holds lines, file_fixes, fixes and the requests made so far
Patch(cur, smell, node, answer) ==
    LET before_src == get_node_source(cur.lines, node)
        fixed_src  == FixedSource(node.name, answer)
        asked      == Append(cur.asked, [smell |-> smell, before |-> before_src])
    IN  IF answer = "none"
        THEN [cur EXCEPT !.asked = asked,
                         !.fixes = Append(@, AutoFix(smell, before_src, <<>>, FALSE,
                                                     "AI did not return a valid fix"))]
        ELSE [cur EXCEPT !.asked = asked,
                         !.lines = replace_node_source(@, node, fixed_src),
                         !.file_fixes = Append(@, AutoFix(smell, before_src, fixed_src, TRUE,
                                                          "AI patch applied"))]

\* the end of a file's turn with every patch written to the file and
\* reported applied, whether or not the patched text parses
Validate_unvalidated(original_text, lines, file_fixes) ==
    [text |-> JoinLines(lines), file_fixes |-> file_fixes]

\* the end of a file's turn in apply_ai_fixes: the text that is written to
\* the file and the file's entries, after the patched text is validated
Validate(original_text, lines, file_fixes) ==
    IF ParsesText(JoinLines(lines))
    THEN [text |-> JoinLines(lines), file_fixes |-> file_fixes]
    ELSE [text |-> original_text,
          file_fixes |-> [j \in 1..Len(file_fixes) |->
                            [file_fixes[j] EXCEPT
                                !.applied = FALSE,
                                !.reason = "AI patch broke syntax; rolled back"]]]

\* the loop of apply_fixes over the smells of a file, from the i-th on.
\* An element of cur.lines is a line, or the comment and the line under it
\* that take a line's place, held as the lines it is made of.
RECURSIVE CommentOut(_, _, _)
CommentOut(file_smells, i, cur) ==
    IF i > Len(file_smells) THEN cur
    ELSE LET smell == file_smells[i]
             idx   == Max(0, smell.line - 1)
         IN  IF smell.type # "unused_imports" \/ idx >= Len(cur.lines)
             THEN CommentOut(file_smells, i + 1, cur)
             ELSE LET original_line == cur.lines[idx + 1]
                      fixed_line    == <<CommentLine>> \o original_line
                  IN  IF original_line[1] = CommentLine
                      THEN CommentOut(file_smells, i + 1,
                               [cur EXCEPT !.fixes = Append(@,
                                   AutoFix(smell, original_line, original_line, FALSE,
                                           "Import already commented"))])
                      ELSE CommentOut(file_smells, i + 1,
                               [cur EXCEPT !.lines[idx + 1] = fixed_line,
                                           !.fixes = Append(@,
                                   AutoFix(smell, original_line, fixed_line, TRUE,
                                           "Commented out unused import"))])

(***************************************************************************)
(* An auto-fix session (cli.py, apply): the files of a project are         *)
(* analysed and the engine is called once with the smells of the analysis, *)
(* apply_ai_fixes or apply_fixes.  A call goes file by file: is_file,      *)
(* read_text, for apply_ai_fixes the requests to the AI, write_text.       *)
(* Somebody else may overwrite or delete a file at any moment between the  *)
(* analysis and the end of the call.                                       *)
(***************************************************************************)
FixPaths == {"a.py", "b.py"}

\* at most this many times a file is changed by somebody else
MaxEdits == 1

TwoFunctions ==
    <<"import os", "def f(a, b, c, d, e) -> int:", "    pass", "    return a",
      "def g(a, b, c, d, e) -> int:", "    pass", "    return a", "print(1)">>
OneFunction == <<"def f(a, b, c, d, e):", "    pass", "    return a", "print(1)">>
Script == <<"import os", "print(1)">>
Commented == <<CommentLine, "import os", "print(1)">>
Garbled == <<"def f(:">>

\* the projects analysed: a.py alone, or a.py and b.py
Projects ==
    { [p \in {"a.py"} |-> Text(ls, nl)] :
        ls \in {TwoFunctions, OneFunction, Script, Commented}, nl \in BOOLEAN }
    \cup { [p \in FixPaths |-> IF p = "a.py" THEN Text(ls, TRUE)
                               ELSE Text(OneFunction, nl)] :
        ls \in {TwoFunctions, Script}, nl \in BOOLEAN }

\* the texts somebody else gives a file: one that does not parse, the
\* empty one
Edits == {Text(Garbled, TRUE), Text(<<>>, FALSE)}

\* analyze_file on each file of the project in the order of the paths:
\* self.smells afterwards
RECURSIVE ProjectSmells(_, _, _)
ProjectSmells(texts, order, todo) ==
    IF todo = {} THEN <<>>
    ELSE LET first == CHOOSE p \in todo : \A q \in todo : IsName(<<p>>, q) \/ p = "a.py"
         IN  DetectSmells(ParseText(texts[first]), first, order)
                 \o ProjectSmells(texts, order, todo \ {first})

InitAutoFix == /\ Init /\ disk = [p \in Paths |-> "empty"]

\* the analysis of a project.  fixer holds the session: the texts analysed
\* and those of the files now, self.smells, and of the engine's call its
\* kind, the file it is at (the k-th of the smells' files) and where it is
\* with it (pc), its local variables (original_text, lines, file_fixes,
\* fixes, the smell i it asks the AI about), the requests made with the
\* answers got, and of every file the text read from and written to it
ScanProject(texts) ==
    /\ fixer = <<>>
    /\ fixer' = [stage |-> "analyzed", analysed |-> texts, texts |-> texts,
                 smells |-> ProjectSmells(texts, hashOrder, DOMAIN texts),
                 edits |-> 0, kind |-> "", k |-> 0, pc |-> "", i |-> 0,
                 original_text |-> <<>>, lines |-> <<>>, file_fixes |-> <<>>,
                 fixes |-> <<>>, asked |-> <<>>, answers |-> <<>>,
                 read |-> <<>>, written |-> <<>>, writes |-> <<>>,
                 outcome |-> ""]
    /\ UNCHANGED <<mainVars, probe, workers, request>>

\* somebody else overwrites an analysed file
EditFile(file, text) ==
    /\ fixer # <<>> /\ fixer.stage \in {"analyzed", "fixing"}
    /\ fixer.edits < MaxEdits
    /\ file \in DOMAIN fixer.texts
    /\ fixer' = [fixer EXCEPT !.texts[file] = text, !.edits = @ + 1]
    /\ UNCHANGED <<mainVars, probe, workers, request>>

\* somebody else deletes an analysed file
DeleteFile(file) ==
    /\ fixer # <<>> /\ fixer.stage \in {"analyzed", "fixing"}
    /\ fixer.edits < MaxEdits
    /\ file \in DOMAIN fixer.texts
    /\ fixer' = [fixer EXCEPT !.texts = [p \in DOMAIN @ \ {file} |-> @[p]],
                              !.edits = @ + 1]
    /\ UNCHANGED <<mainVars, probe, workers, request>>

\* the call goes on to the file after the k-th, or returns fixes
NextFile(call) ==
    IF call.k >= Len(FilesOf(call.smells))
    THEN [call EXCEPT !.stage = "fixed", !.pc = "", !.outcome = "returned"]
    ELSE [call EXCEPT !.k = @ + 1, !.pc = "is_file",
                      !.original_text = <<>>, !.lines = <<>>,
                      !.file_fixes = <<>>, !.i = 0]

\* the file the call is at
FileAt(call) == FilesOf(call.smells)[call.k]

\* apply_ai_fixes(self.smells) with the default allowed_types is called: the
\* smells are grouped by file
ApplyAiFixes ==
    /\ fixer # <<>> /\ fixer.stage = "analyzed"
    /\ fixer' = NextFile([fixer EXCEPT !.stage = "fixing", !.kind = "ai"])
    /\ UNCHANGED <<mainVars, probe, workers, request>>

\* apply_fixes(self.smells) is called: the smells are grouped by file
ApplyFixes ==
    /\ fixer # <<>> /\ fixer.stage = "analyzed"
    /\ fixer' = NextFile([fixer EXCEPT !.stage = "fixing", !.kind = "simple"])
    /\ UNCHANGED <<mainVars, probe, workers, request>>

\* path.is_file(): a file that is gone is left out
IsFile ==
    /\ fixer # <<>> /\ fixer.stage = "fixing" /\ fixer.pc = "is_file"
    /\ fixer' = IF FileAt(fixer) \in DOMAIN fixer.texts
                THEN [fixer EXCEPT !.pc = "read_text"]
                ELSE NextFile(fixer)
    /\ UNCHANGED <<mainVars, probe, workers, request>>

\* apply_ai_fixes after path.read_text() gave original_text: a text that
\* does not parse is left out; else the loop over the file's smells runs
\* up to its first request to the AI, or to its end
ReadForAi(call, original_text) ==
    IF ~ParsesText(original_text) THEN NextFile(call)
    ELSE LET file_smells == SmellsOf(call.smells, FileAt(call))
             i == NextRequest(ParseText(original_text), file_smells,
                              DefaultAllowedTypes, 1)
         IN  [call EXCEPT !.original_text = original_text,
                          !.lines = splitlines(original_text),
                          !.i = i,
                          !.pc = IF i > Len(file_smells) THEN "write_text"
                                 ELSE "get_ai_fix"]

\* apply_fixes after path.read_text() gave original_text: the loop over
\* the file's smells
ReadForFixes(call, original_text) ==
    LET done == CommentOut(SmellsOf(call.smells, FileAt(call)), 1,
                           [lines |-> [j \in 1..Len(splitlines(original_text)) |->
                                          <<splitlines(original_text)[j]>>],
                            fixes |-> call.fixes])
    IN  [call EXCEPT !.original_text = original_text,
                     !.lines = Flatten(done.lines),
                     !.fixes = done.fixes,
                     !.pc = "write_text"]

\* path.read_text() and what follows it up to the next request or write;
\* for a file deleted since is_file it raises FileNotFoundError, which
\* ends the call
ReadText ==
    /\ fixer # <<>> /\ fixer.stage = "fixing" /\ fixer.pc = "read_text"
    /\ fixer' =
          IF FileAt(fixer) \notin DOMAIN fixer.texts
          THEN [fixer EXCEPT !.stage = "fixed", !.pc = "",
                             !.outcome = "FileNotFoundError"]
          ELSE LET original_text == fixer.texts[FileAt(fixer)]
                   call == [fixer EXCEPT !.read =
                               [p \in DOMAIN @ \cup {FileAt(fixer)} |->
                                   IF p = FileAt(fixer) THEN original_text ELSE @[p]]]
               IN  IF fixer.kind = "ai" THEN ReadForAi(call, original_text)
                   ELSE ReadForFixes(call, original_text)
    /\ UNCHANGED <<mainVars, probe, workers, request>>

\* _get_ai_fix returns `answer` for the smell the call waits with: the
\* patch, and the loop up to the next request or its end
GetAiFix(answer) ==
    /\ fixer # <<>> /\ fixer.stage = "fixing" /\ fixer.pc = "get_ai_fix"
    /\ LET tree        == ParseText(fixer.original_text)
           file_smells == SmellsOf(fixer.smells, FileAt(fixer))
           smell       == file_smells[fixer.i]
           i           == NextRequest(tree, file_smells, DefaultAllowedTypes, fixer.i + 1)
           cur         == Patch([lines |-> fixer.lines, file_fixes |-> fixer.file_fixes,
                                 fixes |-> fixer.fixes, asked |-> fixer.asked],
                                smell, find_target_node(tree, smell)[1], answer)
       IN  fixer' = [fixer EXCEPT !.lines = cur.lines, !.file_fixes = cur.file_fixes,
                                  !.fixes = cur.fixes, !.asked = cur.asked,
                                  !.answers = Append(@, answer),
                                  !.i = i,
                                  !.pc = IF i > Len(file_smells) THEN "write_text"
                                         ELSE "get_ai_fix"]
    /\ UNCHANGED <<mainVars, probe, workers, request>>

\* path.write_text(): apply_ai_fixes writes the patched text when it
\* parses and the text it read when not, apply_fixes writes its lines; the
\* file is made when it is gone
WriteText ==
    /\ fixer # <<>> /\ fixer.stage = "fixing" /\ fixer.pc = "write_text"
    /\ \E end \in { IF fixer.kind = "ai"
                    THEN Validate(fixer.original_text, fixer.lines, fixer.file_fixes)
                    ELSE [text |-> JoinLines(fixer.lines), file_fixes |-> <<>>] } :
          fixer' = NextFile(
              [fixer EXCEPT
                  !.texts = [p \in DOMAIN @ \cup {FileAt(fixer)} |->
                                IF p = FileAt(fixer) THEN end.text ELSE @[p]],
                  !.written = [p \in DOMAIN @ \cup {FileAt(fixer)} |->
                                  IF p = FileAt(fixer) THEN end.text ELSE @[p]],
                  !.writes = Append(@, FileAt(fixer)),
                  !.fixes = @ \o end.file_fixes])
    /\ UNCHANGED <<mainVars, probe, workers, request>>

NextAutoFix ==
    \/ \E texts \in Projects : ScanProject(texts)
    \/ \E file \in FixPaths, text \in Edits : EditFile(file, text)
    \/ \E file \in FixPaths : DeleteFile(file)
    \/ ApplyAiFixes
    \/ ApplyFixes
    \/ IsFile
    \/ ReadText
    \/ \E answer \in Answers : GetAiFix(answer)
    \/ WriteText

SpecAutoFix == InitAutoFix /\ [][NextAutoFix]_vars

(***************************************************************************)
(* The review engine (ai_review_engine.py) and the three engines it asks.  *)
(* A review is the tuple its engine returns; a text of a review is held as *)
(* the engine and the part it is, the texts of the rule-based engine also  *)
(* with the template they come from.  None is <<>>.                        *)
(***************************************************************************)
\* what OpenRouterReviewEngine._parse_ai_json returns for a JSON answer
OpenRouterReview ==
    << [engine |-> "openrouter", part |-> "title", template |-> ""],
       [engine |-> "openrouter", part |-> "explanation", template |-> ""],
       [engine |-> "openrouter", part |-> "suggestion", template |-> ""] >>

\* the strings the "severity" of an answer of Ollama can be, and "" for an
\* answer without one
AiSeverities == {"", "info", "critical", " Critical ", "high", "blocker"}

\* str.lower() on the severities of the model
Lower(str) ==
    CASE str = "HIGH"       -> "high"
      [] str = " Critical " -> " critical "
      [] OTHER              -> str

\* what OllamaReviewEngine._parse_ai_json returns for a JSON answer with
\* the given "severity": the severity comes lower-cased (line 19)
OllamaReview(severity) ==
    << [engine |-> "ollama", part |-> "title", template |-> ""],
       [engine |-> "ollama", part |-> "explanation", template |-> ""],
       [engine |-> "ollama", part |-> "suggestion", template |-> ""],
       Lower(severity) >>

\* the smell types RuleBasedReviewEngine.get_review has a template for
TemplateTypes ==
    {"long_method", "god_class", "deep_nesting", "long_parameter_list",
     "missing_type_hints", "unused_imports", "exception_swallowing",
     "unreachable_code", "feature_envy", "many_local_variables"}

\* RuleBasedReviewEngine.get_review
RuleBasedReview(smell) ==
    LET template == IF smell.type \in TemplateTypes THEN smell.type ELSE "default"
    IN  << [engine |-> "rule_based", part |-> "title", template |-> template],
           [engine |-> "rule_based", part |-> "explanation", template |-> template],
           [engine |-> "rule_based", part |-> "suggestion", template |-> template] >>

\* str.strip() on the severities of the model
Strip(str) == IF str = " critical " THEN "critical" ELSE str

\* _normalize_severity
normalize_severity(ai_severity, static_severity) ==
    LET lowered == Strip(Lower(ai_severity))
        static  == Lower(static_severity)
    IN  IF lowered \in {"info", "warning", "critical"} THEN lowered
        ELSE CASE static = "low"      -> "info"
               [] static = "medium"   -> "warning"
               [] static = "high"     -> "critical"
               [] static = "critical" -> "critical"
               [] OTHER               -> "warning"

ReviewComment(smell, severity, review) ==
    [file |-> smell.file, line |-> smell.line, severity |-> severity,
     title |-> review[1], explanation |-> review[2], suggestion |-> review[3]]

\* lines 71-90 of a turn: the rule-based review when no engine returned
\* one, the unpacking of the review, the severity and the comment appended.
\* cur is the turn (its smell, the review the engines left, the engines
\* asked and what they returned); st holds the comments and, for every
\* smell whose turn ended, the answers and the engines asked about it in
\* their order; an exception ends the call with comments not returned.
ReviewSmell(cur, st) ==
    LET review_result == IF cur.review_result = <<>> THEN RuleBasedReview(cur.smell)
                         ELSE cur.review_result
        asked  == cur.asked \o (IF cur.review_result = <<>> THEN <<"rule_based">>
                                ELSE <<>>)
        ai_severity == IF cur.review_result = <<>> THEN "" ELSE review_result[4]
        reached == [st EXCEPT !.consulted = Append(@, asked),
                              !.openrouter = Append(@, cur.openrouter),
                              !.ollama = Append(@, cur.ollama)]
    IN  IF cur.review_result # <<>> /\ Len(cur.review_result) # 4
        THEN [reached EXCEPT !.outcome = "ValueError", !.comments = <<>>]
        ELSE [reached EXCEPT !.comments = Append(@,
                                 ReviewComment(cur.smell,
                                     normalize_severity(ai_severity, cur.smell.severity),
                                     review_result))]

\* at most this many smells are in the list a call is made with
MaxReviewed == 2

\* the smells the reviewed ones are taken from: of severity medium, high,
\* low and critical, and one a caller made with its severity in upper case
ReviewedPool ==
    LET kitchen == DetectSmells(Tree_kitchen, "a.py", <<"json", "os", "re", "sys">>)
        crit50  == DetectSmells(Tree_crit50, "b.py", <<"json", "os", "re", "sys">>)
    IN  <<kitchen[1], kitchen[2], kitchen[17], crit50[1],
          [kitchen[2] EXCEPT !.severity = "HIGH"]>>

ReviewedLists ==
    UNION { { [i \in 1..n |-> ReviewedPool[picks[i]]] :
                picks \in [1..n -> DOMAIN ReviewedPool] } : n \in 0..MaxReviewed }

InitReview == /\ Init /\ disk = [p \in Paths |-> "empty"]
              /\ hashOrder = <<"json", "os", "re", "sys">>

\* the turn of the loop before the iterator has handed out a smell
NoTurn == [pc |-> "loop", smell |-> <<>>, review_result |-> <<>>, asked |-> <<>>,
           openrouter |-> <<>>, ollama |-> <<>>]

\* the call AIReviewEngine(use_openrouter, use_ollama)
\* .generate_review_comments(smells), up to its loop: the list is the
\* caller's (main.py and cli.py pass analyzer.smells) and is read as the
\* loop goes
GenerateReviewComments(all_smells, enabled) ==
    /\ probe = <<>>
    /\ probe' = [family |-> "review", smells |-> all_smells, enabled |-> enabled,
                 total |-> Len(all_smells), extended |-> FALSE, turn |-> NoTurn,
                 returned |-> [outcome |-> "running", comments |-> <<>>,
                               consulted |-> <<>>, openrouter |-> <<>>,
                               ollama |-> <<>>]]
    /\ UNCHANGED <<mainVars, workers, engines>>

\* the call is in its loop, at the given place of a turn
InTurn(pc) ==
    /\ probe # <<>> /\ probe.family = "review"
    /\ probe.returned.outcome = "running"
    /\ probe.turn.pc = pc

\* line 54: the iterator hands out the next smell of the list as the list
\* is now; before every smell but the first the call waits (line 56)
NextSmell ==
    /\ InTurn("loop")
    /\ Len(probe.returned.consulted) < Len(probe.smells)
    /\ probe' = [probe EXCEPT !.turn =
                    [NoTurn EXCEPT
                        !.pc = IF Len(probe.returned.consulted) + 1 > 1
                               THEN "sleep" ELSE "openrouter",
                        !.smell = probe.smells[Len(probe.returned.consulted) + 1]]]
    /\ UNCHANGED <<mainVars, workers, engines>>

\* lines 55-56: time.sleep(REQUEST_DELAY) returns
Sleep ==
    /\ InTurn("sleep")
    /\ probe' = [probe EXCEPT !.turn.pc = "openrouter"]
    /\ UNCHANGED <<mainVars, workers, engines>>

\* lines 63-65: OpenRouter, when enabled, is asked and returns a review or
\* None
AskOpenRouter ==
    /\ InTurn("openrouter")
    /\ IF "openrouter" \in probe.enabled
       THEN \E openrouter \in {<<>>, OpenRouterReview} :
               probe' = [probe EXCEPT !.turn.pc = "ollama",
                                      !.turn.asked = Append(@, "openrouter"),
                                      !.turn.openrouter = openrouter,
                                      !.turn.review_result = openrouter]
       ELSE probe' = [probe EXCEPT !.turn.pc = "ollama"]
    /\ UNCHANGED <<mainVars, workers, engines>>

\* lines 67-69: Ollama, when enabled and no review is there yet, is asked
\* and returns a review or None
AskOllama ==
    /\ InTurn("ollama")
    /\ IF probe.turn.review_result = <<>> /\ "ollama" \in probe.enabled
       THEN \E ollama \in {<<>>} \cup { OllamaReview(sev) : sev \in AiSeverities } :
               probe' = [probe EXCEPT !.turn.pc = "append",
                                      !.turn.asked = Append(@, "ollama"),
                                      !.turn.ollama = ollama,
                                      !.turn.review_result = ollama]
       ELSE probe' = [probe EXCEPT !.turn.pc = "append"]
    /\ UNCHANGED <<mainVars, workers, engines>>

\* lines 71-90: the comment of the smell is made and appended
AppendComment ==
    /\ InTurn("append")
    /\ probe' = [probe EXCEPT !.returned = ReviewSmell(probe.turn, @),
                              !.turn = NoTurn]
    /\ UNCHANGED <<mainVars, workers, engines>>

\* the loop finds the list exhausted and the call returns the comments
ReturnComments ==
    /\ InTurn("loop")
    /\ Len(probe.returned.consulted) = Len(probe.smells)
    /\ probe' = [probe EXCEPT !.returned.outcome = "ok"]
    /\ UNCHANGED <<mainVars, workers, engines>>

\* at any moment of the call, also while it waits or an engine is asked,
\* another thread's analyze_file extends the list (self.smells.extend)
\* with the smell of its file
ExtendSmells ==
    /\ probe # <<>> /\ probe.family = "review"
    /\ probe.returned.outcome = "running"
    /\ ~probe.extended
    /\ probe' = [probe EXCEPT !.smells = @ \o <<ReviewedPool[4]>>, !.extended = TRUE]
    /\ UNCHANGED <<mainVars, workers, engines>>

NextReview ==
    \/ \E all_smells \in ReviewedLists, enabled \in SUBSET {"openrouter", "ollama"} :
          GenerateReviewComments(all_smells, enabled)
    \/ NextSmell
    \/ Sleep
    \/ AskOpenRouter
    \/ AskOllama
    \/ AppendComment
    \/ ReturnComments
    \/ ExtendSmells

SpecReview == InitReview /\ [][NextReview]_vars

(***************************************************************************)
(* OpenRouterReviewEngine.get_review (openrouter_engine.py): one call, a   *)
(* step for every request it sends.                                        *)
(***************************************************************************)
default_models ==
    <<"qwen/qwen2.5-coder:free", "deepseek/deepseek-coder-v2:free",
      "google/gemma-2-9b-it:free">>
default_fallback ==
    <<"meta-llama/llama-3.2-1b-instruct:free",
      "microsoft/phi-3-mini-128k-instruct:free">>

\* what pyproject.toml can configure: nothing, empty lists, or lists of its
\* own, here with one model in both of them
ModelConfigs ==
    { [models |-> <<>>, fallback |-> <<>>],
      [models |-> <<"a/coder">>, fallback |-> <<"b/chat", "a/coder">>] }

\* os.getenv("OPENROUTER_API_KEY"): unset, empty or a key
ApiKeys == {"None", "", "sk-or-key"}

\* what requests.post can end with: a response with its status and what its
\* body holds (a review as JSON, a text that is no JSON, a body without
\* "choices"), or an exception
Posts ==
    { [kind |-> "response", status |-> 200, content |-> c] :
        c \in {"review", "prose", "nochoices"} }
    \cup { [kind |-> "response", status |-> st, content |-> ""] :
             st \in {401, 429, 503, 404} }
    \cup { [kind |-> k, status |-> 0, content |-> ""] :
             k \in {"Timeout", "ConnectionError"} }

\* the call as get_review begins it: nothing sent, the loop at its first
\* model; without an API key it has returned None already
Begin(api_key, config) ==
    [pc |-> IF api_key \in {"None", ""} THEN "returned" ELSE "loop",
     api_key |-> api_key,
     all_models_to_try |->
         (IF config.models = <<>> THEN default_models ELSE config.models)
         \o (IF config.fallback = <<>> THEN default_fallback ELSE config.fallback),
     at |-> 1, sent |-> <<>>, posts |-> <<>>, result |-> <<>>]

\* one turn of the loop in which a 401 response is a failure as any other
Turn_ignoring401(req, post) ==
    IF post.kind = "response" /\ post.status = 200 /\ post.content = "review"
    THEN [req EXCEPT !.sent = Append(@, req.all_models_to_try[req.at]),
                     !.posts = Append(@, post),
                     !.pc = "returned", !.result = OpenRouterReview]
    ELSE [req EXCEPT !.sent = Append(@, req.all_models_to_try[req.at]),
                     !.posts = Append(@, post), !.at = @ + 1]

\* one turn of the loop: the request for the model the loop is at ends
\* with `post`
Turn(req, post) ==
    LET asked == [req EXCEPT !.sent = Append(@, req.all_models_to_try[req.at]),
                             !.posts = Append(@, post)]
    IN  IF post.kind = "response" /\ post.status = 200 /\ post.content = "review"
        THEN [asked EXCEPT !.pc = "returned", !.result = OpenRouterReview]
        ELSE IF post.kind = "response" /\ post.status = 401
        THEN [asked EXCEPT !.pc = "returned", !.result = <<>>]
        ELSE [asked EXCEPT !.at = @ + 1]

InitOpenRouter == /\ Init /\ disk = [p \in Paths |-> "empty"]
                  /\ hashOrder = <<"json", "os", "re", "sys">>

\* get_review is called
GetReview(api_key, config) ==
    /\ request = <<>>
    /\ request' = Begin(api_key, config)
    /\ UNCHANGED <<mainVars, probe, workers, fixer>>

\* the request for the next model is sent and ends
Post(post) ==
    /\ request # <<>> /\ request.pc = "loop"
    /\ request.at <= Len(request.all_models_to_try)
    /\ request' = Turn(request, post)
    /\ UNCHANGED <<mainVars, probe, workers, fixer>>

\* the loop is through: every model failed
AllModelsFailed ==
    /\ request # <<>> /\ request.pc = "loop"
    /\ request.at > Len(request.all_models_to_try)
    /\ request' = [request EXCEPT !.pc = "returned", !.result = <<>>]
    /\ UNCHANGED <<mainVars, probe, workers, fixer>>

NextOpenRouter ==
    \/ \E api_key \in ApiKeys, config \in ModelConfigs : GetReview(api_key, config)
    \/ \E post \in Posts : Post(post)
    \/ AllModelsFailed

SpecOpenRouter == InitOpenRouter /\ [][NextOpenRouter]_vars

\* requests.post is given timeout=40, so a request that is sent ends, and
\* the loop does nothing else that waits
SpecOpenRouterFair ==
    /\ SpecOpenRouter
    /\ WF_vars(\E post \in Posts : Post(post))
    /\ WF_vars(AllModelsFailed)

(***************************************************************************)
(* The quality gate of the command line (cli.py, gate): in mode single a   *)
(* scan of every path given that is no core file, in mode batch one scan   *)
(* of the project directory; a scan analyses with an analyzer of its own   *)
(* and writes the report on which the gate takes its verdict.              *)
(***************************************************************************)
\* the default of --min-quality, in tenths
DefaultMinQuality == 60

\* the --min-quality values the gate is run with, in tenths
MinQualities == {DefaultMinQuality, 50}

\* Path(p).parts of the paths the gate is given: the files of the project
\* directory and a core file of another directory
parts(p) == IF p = "../cli.py" THEN <<"..", "cli.py">> ELSE <<p>>

\* Path(p).name
PathName(p) == parts(p)[Len(parts(p))]

\* the paths the gate is given: none, a core file only, one source file,
\* both
GatePaths == {<<>>, <<"../cli.py">>, <<"a.py">>, <<"a.py", "b.py">>}

\* the core files the gate leaves out
CORE_FILES ==
    {"cli.py", "code_quality_analyzer.py", "ai_review_engine.py",
     "autofix_engine.py", "config_loader.py", "main.py"}

\* ast.get_docstring(node, clean=False): the string that is the first
\* statement of the body, None (<<>>) without one (a Constant that is a str
\* and a statement of its own is a Str; the other constants of the sample
\* sources are no such statement)
get_docstring(node) ==
    IF /\ node.body # <<>> /\ node.body[1].kind = "Expr"
       /\ node.body[1].exprs[1].kind = "Constant"
       /\ node.body[1].exprs[1].name = "str"
    THEN node.body[1].exprs[1].dotted ELSE <<>>

\* for every text that parses, the function and class definitions
\* compute_docstring_coverage counts in it and those with a docstring that
\* is not empty (`if doc:`)
DocstringCounts ==
    [c \in { x \in GateContents : Parses(x) } |->
        LET objects == SelectSeq(walk(Tree(c)),
                           LAMBDA n : n.kind \in {"FunctionDef", "AsyncFunctionDef",
                                                  "ClassDef"})
        IN  [file_total |-> Len(objects),
             file_doc   |-> Len(SelectSeq(objects, LAMBDA n :
                                get_docstring(n) \notin {<<>>, <<"">>}))]]

\* compute_docstring_coverage over the files py_files: the percentage, in
\* milli percent, of the function and class definitions of the files that
\* parse which have a docstring
compute_docstring_coverage(py_files) ==
    LET parsed == SelectSeq(py_files, LAMBDA f : Parses(disk[f]))
        total_objects == Sum([i \in 1..Len(parsed) |->
                                 DocstringCounts[disk[parsed[i]]].file_total])
        documented    == Sum([i \in 1..Len(parsed) |->
                                 DocstringCounts[disk[parsed[i]]].file_doc])
    IN  IF total_objects = 0 THEN 0 ELSE (documented * 100000) \div total_objects

\* the end of scan for the analyzer that analysed the files of `listing`:
\* the docstring coverage of the same files, compute_project_metrics with
\* it and generate_reports.  The result is the report written (what
\* json.load gives for project_quality_report.json: the dict holds numbers,
\* strings, lists and dicts with string keys only), or the exception of
\* the analysis.
Reported(analyzer, listing) ==
    IF analyzer.outcome # "ok"
    THEN [outcome |-> analyzer.outcome, report |-> <<>>]
    ELSE [outcome |-> "ok",
          report  |-> Stamped(compute_project_metrics(
                          analyzer.files, analyzer.smells,
                          <<compute_docstring_coverage(listing)>>))]

\* scan: the analysis of one .py file, or of the directory whose files
\* rglob yields as `listing`, by a new analyzer, and the report of it
scan(listing, single_file) ==
    Reported(IF single_file
             THEN AfterAnalyze([files |-> <<>>, smells |-> <<>>, outcome |-> "ok"],
                               listing[1], disk[listing[1]], hashOrder)
             ELSE AnalyzeAll([files |-> <<>>, smells |-> <<>>, outcome |-> "ok"],
                             listing, hashOrder),
             listing)

\* the verdict of the batch gate on the report it read
Verdict(data, min_quality) ==
    IF data.avg_quality_score < min_quality \/ data.total_smells > 0
    THEN "PROJECT FAILED" ELSE "PROJECT PASSED"

\* sev_dist.get(severity, 0)
Count(sev_dist, severity) ==
    IF severity \in DOMAIN sev_dist THEN sev_dist[severity] ELSE 0

\* mode single after the scan of one path: the path fails when the report
\* counts a medium, high or critical smell; st holds failed_files and the
\* last report read
Judged(st, file_name, scanned) ==
    IF scanned.outcome # "ok"
    THEN [st EXCEPT !.outcome = scanned.outcome, !.report = <<>>]
    ELSE [st EXCEPT !.report = scanned.report,
                    !.failed_files =
                        IF \/ Count(scanned.report.severity_distribution, "medium") > 0
                           \/ Count(scanned.report.severity_distribution, "high") > 0
                           \/ Count(scanned.report.severity_distribution, "critical") > 0
                        THEN Append(@, file_name) ELSE @]

\* the loop of mode single from the i-th path on: core files are skipped,
\* every other path is scanned and judged; an exception of a scan ends
\* the gate, failed files end it with click.Abort
RECURSIVE GateFiles(_, _, _)
GateFiles(paths, i, st) ==
    IF st.outcome # "ok" THEN st
    ELSE IF i > Len(paths)
    THEN [st EXCEPT !.outcome = IF st.failed_files # <<>> THEN "Abort"
                                ELSE "ALL FILES PASSED!"]
    ELSE IF PathName(paths[i]) \in CORE_FILES THEN GateFiles(paths, i + 1, st)
    ELSE GateFiles(paths, i + 1,
                   Judged(st, PathName(paths[i]), scan(<<paths[i]>>, TRUE)))

\* gate: without paths it ends at once.  In mode single (the default) it
\* runs the loop over the paths.  In mode batch, without a path that is no
\* core file it ends at once; else scan analyses the project directory,
\* rglob giving the files in some order, and the verdict is taken on the
\* report; an exception of the analysis ends the gate.
gate(paths, min_quality, mode) ==
    /\ IF paths = <<>>
       THEN /\ probe' = [family |-> "gate", report |-> <<>>, failed_files |-> <<>>]
            /\ outcome' = "No files to analyze"
       ELSE IF mode = "single"
       THEN \E done \in {GateFiles(paths, 1, [outcome |-> "ok", report |-> <<>>,
                                               failed_files |-> <<>>])} :
               /\ probe' = [family |-> "gate", report |-> done.report,
                            failed_files |-> done.failed_files]
               /\ outcome' = done.outcome
       ELSE IF SelectSeq(paths, LAMBDA p : PathName(p) \notin CORE_FILES) = <<>>
       THEN /\ probe' = [family |-> "gate", report |-> <<>>, failed_files |-> <<>>]
            /\ outcome' = "No non-core files to analyze in batch"
       ELSE \E listing \in Listings :
            \E scanned \in {scan(listing, FALSE)} :
               /\ probe' = [family |-> "gate", report |-> scanned.report,
                            failed_files |-> <<>>]
               /\ outcome' = IF scanned.outcome # "ok" THEN scanned.outcome
                             ELSE Verdict(scanned.report, min_quality)
    /\ op' = [name |-> "gate", arg |-> <<paths, min_quality, mode>>]
    /\ UNCHANGED <<disk, hashOrder, files, smells, result, returned, analyzed,
                   reads, analyses, writes, workers, engines>>

NextGate ==
    \/ \E p \in Paths : analyze_file(p)
    \/ \E cov \in DocCoverages : ComputeProjectMetrics(cov)
    \/ \E paths \in GatePaths, mode \in {"single", "batch"} :
       \E min_quality \in IF mode = "single" THEN {DefaultMinQuality} ELSE MinQualities :
          gate(paths, min_quality, mode)

\* the project the gate is run on may hold doc.py
InitGate == Started(GateContents)

SpecGate == InitGate /\ [][NextGate]_vars

(***************************************************************************)
(* Properties                                                              *)
(***************************************************************************)
\* the smells of file p in the project-wide list, in list order
ListedSmells(p) == SelectSeq(smells, LAMBDA s : s.file = p)

\* how many smells of a list have severity sv
SeverityCount(ss, sv) == Cardinality({ i \in DOMAIN ss : ss[i].severity = sv })

\* low=1, medium=2, high=3, critical=5 over a list of smells
WeightedPenalty(ss) ==
    SeverityCount(ss, "low") + 2 * SeverityCount(ss, "medium")
        + 3 * SeverityCount(ss, "high") + 5 * SeverityCount(ss, "critical")

\* sum of f over the paths of S
RECURSIVE SumOver(_, _)
SumOver(f, S) ==
    IF S = {} THEN 0
    ELSE LET p == CHOOSE q \in S : TRUE
         IN  f[p] + SumOver(f, S \ {p})

Abs(i) == IF i < 0 THEN -i ELSE i

\* the state is the one compute_project_metrics has just returned in
JustComputed ==
    /\ outcome = "ok"
    /\ op.name \in {"compute_project_metrics", "analyze_project"}

\* C1: after any sequence of analyze_file calls the project-wide smell list
\* holds the smells of every stored file exactly once: the smells it lists
\* for a path are the smells of the path's stored record.
C1_SmellsListedOnce ==
    \A p \in DOMAIN files : ListedSmells(p) = files[p].smells

\* C2: an analyze_file call on a path whose stored record was computed from
\* the content the file still has leaves that record (loc, mi, ordered
\* smells, quality_score) as it was, and the map keeps the same paths.
C2_RecordIdempotent ==
    [][\A p \in Paths :
          (/\ op'.name = "analyze_file"
           /\ op'.arg = <<p>>
           /\ p \in DOMAIN files
           /\ analyzed[p] = disk[p])
          => /\ outcome' = "ok"
             /\ DOMAIN files' = DOMAIN files
             /\ files'[p] = files[p]]_vars

\* a path has been analyzed twice with the same content
C2_Witness ==
    \E p \in DOMAIN files :
        /\ op = [name |-> "analyze_file", arg |-> <<p>>]
        /\ analyzed[p] = disk[p]
        /\ files[p].smells # <<>>
        /\ ListedSmells(p) = files[p].smells \o files[p].smells

\* C3: the stored quality_score of every analyzed file is at least 0.
C3_QualityNonNegative ==
    \A p \in DOMAIN files : files[p].quality_score >= 0

\* a stored file with 50 critical smells, its penalty far above mi / 20
C3_Witness ==
    \E p \in DOMAIN files :
        /\ SeverityCount(files[p].smells, "critical") >= 50
        /\ files[p].mi - 10000 * WeightedPenalty(files[p].smells) < 0
        /\ files[p].quality_score = 0

\* C4: the stored quality_score of every analyzed file is
\* max(0, mi/20 - 0.5 * P), P the weights low=1, medium=2, high=3,
\* critical=5 summed over the smells of that file's own record, all of
\* which are smells of that file.
C4_QualityFormula ==
    \A p \in DOMAIN files :
        /\ \A i \in DOMAIN files[p].smells : files[p].smells[i].file = p
        /\ files[p].quality_score =
               Max(0, files[p].mi - 10000 * WeightedPenalty(files[p].smells))

\* two stored files with different penalties, the later one scored above 0
C4_Witness ==
    \E p, q \in DOMAIN files :
        /\ p # q
        /\ files[p].smells # <<>>
        /\ files[q].smells # <<>>
        /\ op = [name |-> "analyze_file", arg |-> <<q>>]
        /\ WeightedPenalty(files[p].smells) # WeightedPenalty(files[q].smells)
        /\ files[q].quality_score > 0

\* C5: calculate_mi returns a value in [0, 100] for every volume,
\* cyclomatic complexity and statement count, zero statements and zero
\* volume included.
C5_MIWithinRange ==
    probe # <<>> => (probe.mi >= 0 /\ probe.mi <= 100000)

\* no statement and no binary operation: the formula gives more than 100
C5_Witness ==
    /\ probe # <<>>
    /\ probe.loc = 0
    /\ probe.hv = 0
    /\ RawMI(probe.hv, probe.cc, probe.loc) > 100000
    /\ probe.mi = 100000

\* C6: compute_project_metrics returns without a division by zero; with no
\* file analyzed it returns zeros, an empty severity distribution and an
\* empty files map; with stored files all of loc 0 its project_mi is 0.
C6_EmptyProject ==
    op.name = "compute_project_metrics" =>
        /\ outcome = "ok"
        /\ files = <<>> =>
             /\ returned.value.project_mi = 0
             /\ returned.value.avg_quality_score = 0
             /\ returned.value.total_files = 0
             /\ returned.value.total_smells = 0
             /\ returned.value.severity_distribution = <<>>
             /\ returned.value.files = <<>>
        /\ (\A p \in DOMAIN files : files[p].loc = 0) =>
             returned.value.project_mi = 0

\* compute_project_metrics has returned with no file analyzed
C6_Witness ==
    /\ op.name = "compute_project_metrics"
    /\ files = <<>>
    /\ returned # <<>>
    /\ returned.value.total_files = 0

\* C7: compute_project_metrics leaves self.files and self.smells as they
\* are, and returns what the previous call with the same argument returned
\* when nothing was stored in between, whatever was done to that earlier
\* result since.
C7_PureRead ==
    [][op'.name = "compute_project_metrics" =>
          /\ files' = files
          /\ smells' = smells
          /\ (reads >= 1 /\ returned.arg = op'.arg)
                => returned'.value = returned.value]_vars

\* a second return over the same non-empty stored state
C7_Witness ==
    /\ op.name = "compute_project_metrics"
    /\ reads = 2
    /\ files # <<>>
    /\ smells # <<>>

\* C8: for a non-empty set of stored files the result's total_files is the
\* number of stored paths, its avg_quality_score is within half a tenth of
\* the mean of their quality_score, and (their statement counts not all 0)
\* its project_mi is within half a tenth of sum(mi*loc) / sum(loc).
C8_ProjectMeans ==
    (JustComputed /\ files # <<>>) =>
        LET stored == DOMAIN files
            n      == Cardinality(stored)
            L      == SumOver([p \in stored |-> files[p].loc], stored)
            M      == SumOver([p \in stored |-> files[p].mi * files[p].loc], stored)
            Q      == SumOver([p \in stored |-> files[p].quality_score], stored)
        IN  /\ returned.value.total_files = n
            /\ 2 * Abs(returned.value.avg_quality_score * 2000 * n - Q) <= 2000 * n
            /\ L > 0 =>
                 2 * Abs(returned.value.project_mi * 100 * L - M) <= 100 * L

\* two stored files of different size and mi, whose plain mean of mi
\* rounds to another tenth than the weighted mean
C8_Witness ==
    /\ JustComputed
    /\ \E p, q \in DOMAIN files :
          /\ DOMAIN files = {p, q}
          /\ files[p].loc > files[q].loc
          /\ files[p].mi < files[q].mi
          /\ 2 * Abs(returned.value.project_mi * 200 - (files[p].mi + files[q].mi))
                 > 200

\* C9: in every result of compute_project_metrics each severity is mapped
\* to the number of smells of that severity in self.smells (absent when
\* there is none), and the counts add up to total_smells.
C9_SeverityDistribution ==
    JustComputed =>
        LET dist == returned.value.severity_distribution
        IN  /\ DOMAIN dist = { sv \in Severities : SeverityCount(smells, sv) > 0 }
            /\ \A sv \in DOMAIN dist : dist[sv] = SeverityCount(smells, sv)
            /\ SumOver(dist, DOMAIN dist) = returned.value.total_smells
            /\ returned.value.total_smells = Len(smells)

\* a result over a list with smells of three severities, one file's
\* smells listed twice
C9_Witness ==
    /\ JustComputed
    /\ Cardinality(DOMAIN returned.value.severity_distribution) >= 3
    /\ \E p \in DOMAIN files : Len(ListedSmells(p)) > Len(files[p].smells)

\* C10: an analyze_file call on a file that does not parse ends with the
\* SyntaxError of ast.parse and leaves self.files and self.smells as they
\* were.
C10_ParseFailure ==
    [][\A p \in Paths :
          (/\ op'.name = "analyze_file"
           /\ op'.arg = <<p>>
           /\ ~Parses(disk[p]))
          => /\ outcome' = "SyntaxError"
             /\ files' = files
             /\ smells' = smells]_vars

\* the call failed on a path with files and smells already stored,
\* that path's earlier record among them
C10_Witness ==
    \E p \in DOMAIN files :
        /\ op = [name |-> "analyze_file", arg |-> <<p>>]
        /\ outcome = "SyntaxError"
        /\ ~Parses(disk[p])
        /\ smells # <<>>

\* analyze_file called for each path of `listing` in turn, an exception of
\* one call not ending the run
RECURSIVE Sequentially(_, _)
Sequentially(self, listing) ==
    IF listing = <<>> THEN self
    ELSE Sequentially(AfterAnalyze([self EXCEPT !.outcome = "ok"], Head(listing),
                                   disk[Head(listing)], hashOrder),
                      Tail(listing))

NewAnalyzer == [files |-> <<>>, smells |-> <<>>, outcome |-> "ok"]

AllRunsEnded == \A p \in Paths : workers[p].pc \in {"done", "raised"}

\* C11: when concurrent analyze_file runs for distinct paths have all
\* ended, in every interleaving of their steps and so also when each run's
\* store and extend come together, self.files is what every sequential run
\* over the paths leaves, and self.smells is what one of them leaves: every
\* stored file's smells once, together, in their per-file order.
C11_ConcurrentMerge ==
    AllRunsEnded =>
        /\ \A l \in Listings : files = Sequentially(NewAnalyzer, l).files
        /\ \E l \in Listings : smells = Sequentially(NewAnalyzer, l).smells
        /\ \A p \in DOMAIN files : ListedSmells(p) = files[p].smells

\* both runs ended with smells, the run for b.py extending the list first
C11_Witness ==
    /\ AllRunsEnded
    /\ DOMAIN files = Paths
    /\ \A p \in Paths : files[p].smells # <<>>
    /\ files["a.py"].smells # files["b.py"].smells
    /\ smells = files["b.py"].smells \o files["a.py"].smells

\* C12: every step leaves the project smell list as it was or longer, with
\* the list it was as a prefix: smells already listed keep their place and
\* every field.
C12_AppendOnly ==
    [][/\ Len(smells') >= Len(smells)
       /\ SubSeq(smells', 1, Len(smells)) = smells]_vars

\* an analysis has appended smells behind the smells of an earlier one
C12_Witness ==
    /\ op.name = "analyze_file"
    /\ outcome = "ok"
    /\ files[op.arg[1]].smells # <<>>
    /\ Len(smells) > Len(files[op.arg[1]].smells)

\* the smells of one type among those the detectors yielded
OfType(type) == SelectSeq(probe.smells, LAMBDA s : s.type = type)

\* severity of a long method of `count` statements, as the detector table
\* of the specification gives it
LongMethodSeverity(count) ==
    IF count > 50 THEN "critical"
    ELSE IF count > 35 THEN "high"
    ELSE IF count > 25 THEN "medium"
    ELSE "low"

\* the long_method smell of a function of `count` statements (the def
\* statement and every statement below it), none up to 20
ExpectedLongMethod(name, line, count) ==
    IF count > 20
    THEN << CodeSmell("long_method", GeneratedPath, <<name>>, line,
                      LongMethodSeverity(count),
                      Desc("Function {}: {} lines", <<name>>, <<count>>)) >>
    ELSE <<>>

\* C13: a function definition yields one long_method smell exactly when
\* its statement count exceeds 20 (20 does not trigger, 21 does); the
\* severity is critical above 50, high above 35, medium above 25, else low
C13_LongMethod ==
    (probe # <<>> /\ probe.family = "functions") =>
        OfType("long_method") =
            ExpectedLongMethod("f", 1, 1 + probe.params[1])
                \o ExpectedLongMethod("m", probe.params[1] + 3, 2 + probe.params[2])

\* f has exactly 20 statements and is not reported, m has 21 and is, low
C13_Witness ==
    /\ probe # <<>> /\ probe.family = "functions"
    /\ probe.params = <<19, 19>>
    /\ Len(OfType("long_method")) = 1
    /\ OfType("long_method")[1].node_name = <<"m">>
    /\ OfType("long_method")[1].severity = "low"

\* C14: a class of at most 100 statements and at most 10 methods yields no
\* god_class smell; any other class yields exactly one, of severity high,
\* and critical only with more than 200 statements or more than 15 methods
\* (so 11 methods and at most 200 statements is high)
C14_GodClass ==
    (probe # <<>> /\ probe.family = "classes") =>
        LET methods == probe.params[1]
            count   == probe.params[2]
        IN  OfType("god_class") =
                IF count <= 100 /\ methods <= 10 THEN <<>>
                ELSE << CodeSmell("god_class", GeneratedPath, <<"K">>, 1,
                                  IF count > 200 \/ methods > 15
                                  THEN "critical" ELSE "high",
                                  Desc("Class {}: {}loc, {} methods", <<"K">>,
                                       <<count, methods>>)) >>

\* a class of exactly 11 methods and 100 statements is reported once, high
C14_Witness ==
    /\ probe # <<>> /\ probe.family = "classes"
    /\ probe.params = <<11, 100>>
    /\ Len(OfType("god_class")) = 1
    /\ OfType("god_class")[1].severity = "high"

\* the number of compound statements around the innermost statement of the
\* deeper of the two chains of a generated nesting.py
ChainDepth == Max(probe.params[1], probe.params[2])

\* C15: a deep_nesting smell is recorded exactly when the maximum nesting
\* depth of control-flow constructs exceeds 4: none at depth 4, medium at
\* depth 5 or 6, high from depth 7
C15_DeepNesting ==
    (probe # <<>> /\ probe.family = "nesting") =>
        OfType("deep_nesting") =
            IF ChainDepth <= 4 THEN <<>>
            ELSE << CodeSmell("deep_nesting", GeneratedPath, <<"complex logic">>, 1,
                              IF ChainDepth >= 7 THEN "high" ELSE "medium",
                              Desc("Max nesting depth: {}", <<>>, <<ChainDepth>>)) >>

\* seven statements nested in a function, next to a chain of four: high
C15_Witness ==
    /\ probe # <<>> /\ probe.family = "nesting"
    /\ probe.params = <<4, 7, 1, "body", "function">>
    /\ Len(OfType("deep_nesting")) = 1
    /\ OfType("deep_nesting")[1].severity = "high"

\* C16: find_max_nesting returns the largest number of control-flow
\* constructs (if, for, while, with, try) on a path from the root: each
\* one entered adds 1, and function and class definitions, assignments,
\* calls, expressions and handler clauses add nothing; a tree without
\* control flow has depth 0
C16_MaxNesting ==
    (probe # <<>> /\ probe.family = "nesting") =>
        /\ probe.nesting = ChainDepth
        /\ (probe.params[1] = 0 /\ probe.params[2] = 0) => probe.nesting = 0

\* a method of a class with chains of two and of five statements, the
\* try statements holding their chain in the handler clause: depth 5
C16_Witness ==
    /\ probe # <<>> /\ probe.family = "nesting"
    /\ probe.params = <<2, 5, 3, "body", "method">>
    /\ probe.nesting = 5

\* the line of the function f of a generated parameters.py
LineOfF == IF probe.params[4] = "method" THEN 2 ELSE 1

\* C17: a function definition yields a long_parameter_list smell exactly
\* when it has more than 4 positional parameters (4 does not trigger, 5
\* does); the severity is high above 6 parameters and medium otherwise
C17_LongParameterList ==
    (probe # <<>> /\ probe.family = "parameters") =>
        LET count == probe.params[1]
        IN  OfType("long_parameter_list") =
                IF count <= 4 THEN <<>>
                ELSE << CodeSmell("long_parameter_list", GeneratedPath, <<"f">>, LineOfF,
                                  IF count > 6 THEN "high" ELSE "medium",
                                  Desc("Function {}: {} parameters", <<"f">>,
                                       <<count>>)) >>

\* five parameters, every one annotated: reported, medium
C17_Witness ==
    /\ probe # <<>> /\ probe.family = "parameters"
    /\ probe.params = <<5, "all", TRUE, "function">>
    /\ Len(OfType("long_parameter_list")) = 1
    /\ OfType("long_parameter_list")[1].severity = "medium"

\* C18: a function definition yields a missing_type_hints smell exactly
\* when none of its parameters is annotated and it has no return
\* annotation (so a function without parameters and without a return
\* annotation does); the severity is medium above 2 parameters, else low
C18_MissingTypeHints ==
    (probe # <<>> /\ probe.family = "parameters") =>
        LET count   == probe.params[1]
            hints   == probe.params[2]
            returns == probe.params[3]
        IN  OfType("missing_type_hints") =
                IF (count = 0 \/ hints = "none") /\ ~returns
                THEN << CodeSmell("missing_type_hints", GeneratedPath, <<"f">>, LineOfF,
                                  IF count > 2 THEN "medium" ELSE "low",
                                  Desc("Function {}: no parameter or return type hints",
                                       <<"f">>, <<>>)) >>
                ELSE <<>>

\* def f(): pass is reported, low
C18_Witness ==
    /\ probe # <<>> /\ probe.family = "parameters"
    /\ probe.params = <<0, "none", FALSE, "function">>
    /\ Len(OfType("missing_type_hints")) = 1
    /\ OfType("missing_type_hints")[1].severity = "low"

\* the names a text of names joined by ", " lists
NamesIn(joined) == { joined[i] : i \in { j \in DOMAIN joined : j % 2 = 1 } }

\* `joined` is a list of n different names with ", " between them
IsListOf(joined, n) ==
    /\ Len(joined) = IF n = 0 THEN 0 ELSE 2 * n - 1
    /\ \A i \in DOMAIN joined : i % 2 = 0 => joined[i] = ", "
    /\ Cardinality(NamesIn(joined)) = n

\* C19: a file yields exactly one unused_imports smell, of severity low,
\* when some imported name is read nowhere in it, and none otherwise; the
\* smell names unused imports only, min(3, number of unused imports) of them
C19_UnusedImports ==
    (probe # <<>> /\ probe.family = "imports") =>
        LET unused == probe.params[1] \ probe.params[2]
            found  == OfType("unused_imports")
        IN  IF unused = {} THEN found = <<>>
            ELSE /\ Len(found) = 1
                 /\ found[1].severity = "low"
                 /\ found[1].file = GeneratedPath
                 /\ found[1].line = 1
                 /\ IsListOf(found[1].node_name, Min(3, Cardinality(unused)))
                 /\ NamesIn(found[1].node_name) \subseteq unused
                 /\ found[1].description =
                        Desc("Unused imports: {}", found[1].node_name, <<>>)

\* import json, import os and print(json.dumps(0)): one smell naming os
C19_Witness ==
    /\ probe # <<>> /\ probe.family = "imports"
    /\ probe.params = <<{"json", "os"}, {"json"}, {}, "plain", <<"os">> >>
    /\ Len(OfType("unused_imports")) = 1
    /\ OfType("unused_imports")[1].node_name = <<"os">>

\* C20: a function definition yields a many_local_variables smell exactly
\* when it binds more than 8 different names by simple or annotated
\* assignment (8 does not trigger, 9 does; a name assigned again counts
\* once); the severity is high above 15 names and medium otherwise
C20_ManyLocals ==
    (probe # <<>> /\ probe.family = "locals") =>
        LET count == probe.params[1]
        IN  OfType("many_local_variables") =
                IF count <= 8 THEN <<>>
                ELSE << CodeSmell("many_local_variables", GeneratedPath, <<"f">>, 1,
                                  IF count > 15 THEN "high" ELSE "medium",
                                  Desc("Function defines {} local variables; consider splitting into smaller functions.",
                                       <<>>, <<count>>)) >>

\* eight names, each assigned twice: sixteen assignments and no smell
C20_Witness ==
    /\ probe # <<>> /\ probe.family = "locals"
    /\ probe.params = <<8, "assign", TRUE>>
    /\ OfType("many_local_variables") = <<>>

\* C21: a method defined in a class body yields a feature_envy smell, of
\* severity medium, exactly when its most-accessed base other than self
\* has at least 5 attribute accesses and at least twice as many as self;
\* 6 foreign accesses with 1 of self trigger it, 4 with 3 do not, and a
\* method without foreign accesses never does
C21_FeatureEnvy ==
    (probe # <<>> /\ probe.family = "envy") =>
        LET most == Max(probe.params[1], probe.params[2])
            own  == probe.params[3]
            base == IF probe.params[1] >= probe.params[2] THEN "other" ELSE "peer"
        IN  OfType("feature_envy") =
                IF most >= 5 /\ most >= 2 * own
                THEN << CodeSmell("feature_envy", GeneratedPath, <<"K", ".", "m">>, 2,
                                  "medium",
                                  Desc("Method uses attributes of '{}' much more than 'self'; consider moving or refactoring.",
                                       <<base>>, <<>>)) >>
                ELSE <<>>

\* six accesses of other.a and one of self.a: reported
C21_Witness ==
    /\ probe # <<>> /\ probe.family = "envy"
    /\ probe.params = <<6, 0, 1>>
    /\ Len(OfType("feature_envy")) = 1
    /\ OfType("feature_envy")[1].severity = "medium"

\* the smell of the i-th handler clause of a generated handlers.py: one for
\* a catch-all or `Exception` clause whose body is a single pass
ExpectedSwallow(hs, i, first) ==
    IF hs[i][1] \in {"bare", "Exception"} /\ hs[i][2] = "pass"
    THEN << CodeSmell("exception_swallowing", GeneratedPath, <<"<module>">>,
                      HandlerLine(hs, i, first), "high",
                      Desc("Exception swallowed with broad 'except' and no real handling.",
                           <<>>, <<>>)) >>
    ELSE <<>>

\* C22: a handler clause yields an exception_swallowing smell, of severity
\* high and at the clause's line, exactly when it is a catch-all or catches
\* Exception and its body is a single pass; a clause for a specific type or
\* with any other body yields none
C22_ExceptionSwallowing ==
    (probe # <<>> /\ probe.family = "handlers") =>
        LET hs    == probe.params[1]
            first == IF probe.params[2] = "module" THEN 3 ELSE 4
        IN  OfType("exception_swallowing") =
                Flatten([i \in 1..Len(hs) |-> ExpectedSwallow(hs, i, first)])

\* except ValueError: pass is not reported, the except: pass after it is
C22_Witness ==
    /\ probe # <<>> /\ probe.family = "handlers"
    /\ probe.params = << << <<"ValueError", "pass">>, <<"bare", "pass">> >>, "function" >>
    /\ Len(OfType("exception_swallowing")) = 1
    /\ OfType("exception_swallowing")[1].line = 6
    /\ OfType("exception_swallowing")[1].severity = "high"

\* the unreachable_code smell of the statement of f on `line`
Unreachable(line) ==
    CodeSmell("unreachable_code", GeneratedPath, <<"f">>, line, "medium",
              Desc("Statement is unreachable (after return/raise/break/continue).",
                   <<>>, <<>>))

\* the lines of the statements of a generated unreachable.py that follow a
\* terminator of their own block, in the order the blocks are visited
UnreachableLines ==
    LET where == probe.params[1]
        term  == probe.params[2]
        after == probe.params[3]
        outer == probe.params[4]
        tail  == probe.params[5]
        c     == IF outer THEN 4 ELSE 3
        first == IF where = "function" THEN 2 ELSE BlockStart(where, c)
        size  == 1 + (IF term = "none" THEN 0 ELSE 1) + after
        inB   == IF term = "none" THEN <<>>
                 ELSE [j \in 1..after |-> first + 1 + j]
        end   == first + size + (IF where = "try" THEN 2 ELSE 0)
    IN  IF where = "function" THEN inB
        ELSE (IF outer THEN <<c>> ELSE <<>>)
                 \o inB
                 \o (IF outer THEN [j \in 1..tail |-> end + j - 1] ELSE <<>>)

\* C23: in each block of a function (its body and, independently, every
\* block of the if, for, while, with and try statements in it), each
\* statement after a return, raise, break or continue of that block
\* yields exactly one unreachable_code smell, of severity medium and at
\* its line; a statement with no terminator before it in its own block
\* yields none, and no statement is reported twice
C23_UnreachableCode ==
    (probe # <<>> /\ probe.family = "unreachable") =>
        LET found == OfType("unreachable_code")
        IN  /\ found = [i \in 1..Len(UnreachableLines) |->
                           Unreachable(UnreachableLines[i])]
            /\ \A i, j \in DOMAIN found : found[i].line = found[j].line => i = j

\* return x followed by one assignment: one smell, at the assignment
C23_Witness ==
    /\ probe # <<>> /\ probe.family = "unreachable"
    /\ probe.params = <<"function", "Return", 1, FALSE, 0>>
    /\ Len(OfType("unreachable_code")) = 1
    /\ OfType("unreachable_code")[1].line = 4

\* the smells of the analysis that apply_ai_fixes may fix by default
FixableSmells ==
    SelectSeq(fixer.smells, LAMBDA smell : smell.type \in DefaultAllowedTypes)

\* the AI was asked about the smell
Asked(smell) == \E k \in 1..Len(fixer.asked) : fixer.asked[k].smell = smell

\* C24: while the analysed files are unchanged, every smell of the analysis
\* whose type is in the default allowed set (long_method,
\* long_parameter_list, missing_type_hints, unused_imports) is located by
\* _find_target_node on its file, and an apply_ai_fixes call asks the AI
\* for a fix of it.
C24_SmellsLocated ==
    (fixer # <<>> /\ fixer.edits = 0) =>
        \A k \in 1..Len(FixableSmells) :
            /\ find_target_node(ParseText(fixer.analysed[FixableSmells[k].file]),
                                FixableSmells[k]) # <<>>
            /\ (fixer.stage = "fixed" /\ fixer.kind = "ai") => Asked(FixableSmells[k])

\* the entries of fixer.fixes that are patches of the file: the AI
\* returned code for them
PatchesOf(file) ==
    SelectSeq(fixer.fixes, LAMBDA fx : fx.file = file /\ fx.fixed_code # <<>>)

\* the call is through with the file, or ended at it
TurnEnded(file) ==
    \E k \in 1..Len(FilesOf(fixer.smells)) :
        /\ FilesOf(fixer.smells)[k] = file
        /\ k < fixer.k \/ (k = fixer.k /\ fixer.stage = "fixed")

\* C28: when apply_ai_fixes is through with a file whose text parsed when
\* the call read it, it has written the file with a text that parses:
\* either with its patches, all reported applied, or with exactly the text
\* it read, every patch of the file reported not applied with the
\* rolled-back reason; a file that did not parse, or was gone, is not
\* written, and no patch of it is reported.
C28_ValidatedOrRolledBack ==
    (fixer # <<>> /\ fixer.kind = "ai") =>
        \A file \in DOMAIN fixer.analysed :
            IF /\ TurnEnded(file)
               /\ file \in DOMAIN fixer.read /\ ParsesText(fixer.read[file])
            THEN /\ \E k \in 1..Len(fixer.writes) : fixer.writes[k] = file
                 /\ ParsesText(fixer.written[file])
                 /\ \/ \A k \in 1..Len(PatchesOf(file)) :
                             /\ PatchesOf(file)[k].applied
                             /\ PatchesOf(file)[k].reason = "AI patch applied"
                    \/ /\ fixer.written[file] = fixer.read[file]
                       /\ \A k \in 1..Len(PatchesOf(file)) :
                             /\ ~PatchesOf(file)[k].applied
                             /\ PatchesOf(file)[k].reason = "AI patch broke syntax; rolled back"
            ELSE /\ \A k \in 1..Len(fixer.writes) : fixer.writes[k] # file
                 /\ file \notin DOMAIN fixer.written
                 /\ \A k \in 1..Len(PatchesOf(file)) : FALSE

\* a call that rolled one file's patch back and wrote the other file with
\* its patch
C28_Witness ==
    /\ fixer # <<>> /\ fixer.stage = "fixed" /\ fixer.kind = "ai"
    /\ DOMAIN fixer.read = FixPaths /\ DOMAIN fixer.written = FixPaths
    /\ fixer.written["a.py"] = fixer.read["a.py"]
    /\ fixer.written["b.py"] # fixer.read["b.py"]
    /\ \E k \in 1..Len(fixer.fixes) :
          /\ fixer.fixes[k].file = "a.py"
          /\ fixer.fixes[k].reason = "AI patch broke syntax; rolled back"
    /\ \E k \in 1..Len(fixer.fixes) :
          /\ fixer.fixes[k].file = "b.py"
          /\ fixer.fixes[k].applied

\* the target of an entry of fixer.fixes in the text the call read from
\* its file
TargetOf(fx) ==
    find_target_node(ParseText(fixer.read[fx.file]),
                     [node_name |-> fx.node_name, line |-> fx.line])[1]

\* the lines from the i-th on of a text in which the lines of every target
\* of an applied patch are replaced by the code the AI returned for it (by
\* the last code, when several patches have one target) and every other
\* line is kept
RECURSIVE Patched(_, _, _)
Patched(lines, applied, i) ==
    IF i > Len(lines) THEN <<>>
    ELSE LET on == { k \in 1..Len(applied) : TargetOf(applied[k]).lineno = i }
         IN  IF on = {}
             THEN <<lines[i]>> \o Patched(lines, applied, i + 1)
             ELSE applied[SetMax(on)].fixed_code
                     \o Patched(lines, applied, end_lineno(TargetOf(applied[SetMax(on)])) + 1)

\* C29: a file that apply_ai_fixes wrote with patches reported applied got
\* the text the call read with exactly the lines of each patch's target
\* replaced by the code the AI returned, every other line unchanged, also
\* when the file got several patches and an earlier one changed the number
\* of lines.
C29_ExactlyTheTargetLines ==
    (fixer # <<>> /\ fixer.kind = "ai") =>
        \A file \in DOMAIN fixer.written :
            LET applied == SelectSeq(fixer.fixes, LAMBDA fx : fx.file = file /\ fx.applied)
            IN  applied # <<>> =>
                    fixer.written[file].lines = Patched(fixer.read[file].lines, applied, 1)

\* C29 for one patch per file: a file written with one patch reported
\* applied got the text the call read with the target's lines replaced
C29_OnePatch ==
    (fixer # <<>> /\ fixer.kind = "ai") =>
        \A file \in DOMAIN fixer.written :
            LET applied == SelectSeq(fixer.fixes, LAMBDA fx : fx.file = file /\ fx.applied)
            IN  Len(applied) = 1 =>
                    fixer.written[file].lines = Patched(fixer.read[file].lines, applied, 1)

\* a generate_review_comments call has ended
ReviewEnded ==
    probe # <<>> /\ probe.family = "review" /\ probe.returned.outcome # "running"

\* C25: generate_review_comments returns one ReviewComment per smell of the
\* list, in the order of the smells and with each smell's file and line,
\* whatever the engines enabled and whatever they answer; it raises no
\* exception.
C25_OneCommentPerSmell ==
    ReviewEnded =>
        /\ probe.returned.outcome = "ok"
        /\ Len(probe.returned.comments) = Len(probe.smells)
        /\ \A i \in 1..Len(probe.smells) :
              /\ probe.returned.comments[i].file = probe.smells[i].file
              /\ probe.returned.comments[i].line = probe.smells[i].line

\* C25 without an answer of OpenRouter: when OpenRouter is disabled or
\* returns nothing for every smell, there is one comment per smell
C25_WithoutOpenRouter ==
    (/\ ReviewEnded
     /\ \A i \in 1..Len(probe.returned.openrouter) :
           probe.returned.openrouter[i] = <<>>) =>
        /\ probe.returned.outcome = "ok"
        /\ Len(probe.returned.comments) = Len(probe.smells)
        /\ \A i \in 1..Len(probe.smells) :
              /\ probe.returned.comments[i].file = probe.smells[i].file
              /\ probe.returned.comments[i].line = probe.smells[i].line

\* the engines the claim has asked about the i-th smell, in their order:
\* OpenRouter when enabled; Ollama when enabled and OpenRouter is disabled
\* or returned nothing; the rule-based engine when every enabled AI engine
\* returned nothing
FallbackOrder(i) ==
    LET first  == "openrouter" \in probe.enabled
        second == /\ "ollama" \in probe.enabled
                  /\ ~first \/ probe.returned.openrouter[i] = <<>>
        third  == /\ first => probe.returned.openrouter[i] = <<>>
                  /\ "ollama" \in probe.enabled => probe.returned.ollama[i] = <<>>
    IN  (IF first THEN <<"openrouter">> ELSE <<>>)
            \o (IF second THEN <<"ollama">> ELSE <<>>)
            \o (IF third THEN <<"rule_based">> ELSE <<>>)

\* C26: for every smell the engines are consulted in the fallback order
\* OpenRouter, Ollama, rule-based templates, each only when it is enabled
\* and the ones before it returned no review, and the smell ends with a
\* comment whose severity is info, warning or critical.
C26_FallbackEndsInComment ==
    ReviewEnded =>
        \A i \in 1..Len(probe.smells) :
            /\ i <= Len(probe.returned.consulted)
            /\ probe.returned.consulted[i] = FallbackOrder(i)
            /\ i <= Len(probe.returned.comments)
            /\ probe.returned.comments[i].severity \in {"info", "warning", "critical"}

\* C26 for the smells the call reaches: the engines are consulted in the
\* fallback order, and every comment made has one of the three severities
C26_OrderOfTheReached ==
    (probe # <<>> /\ probe.family = "review") =>
        /\ \A i \in 1..Len(probe.returned.consulted) :
              probe.returned.consulted[i] = FallbackOrder(i)
        /\ \A i \in 1..Len(probe.returned.comments) :
              probe.returned.comments[i].severity \in {"info", "warning", "critical"}
        /\ probe.returned.outcome = "ok" =>
              Len(probe.returned.comments) = Len(probe.smells)

\* whether the k-th request of the call ended with a review
Reviewed(k) ==
    /\ request.posts[k].kind = "response" /\ request.posts[k].status = 200
    /\ request.posts[k].content = "review"

\* whether the k-th request of the call ended with status 401
Refused(k) == request.posts[k].kind = "response" /\ request.posts[k].status = 401

\* what holds of a get_review call at every moment: the requests sent are
\* the first ones of the primary list followed by the fallback list, one a
\* model of the list and in its order; none is sent without an API key or
\* after a review or a 401; the call returns the review of the request that
\* got one, None after a 401, and None when every model was asked in vain
OpenRouterSafety ==
    request # <<>> =>
        /\ Len(request.sent) <= Len(request.all_models_to_try)
        /\ request.sent = SubSeq(request.all_models_to_try, 1, Len(request.sent))
        /\ request.api_key \in {"None", ""} =>
              request.sent = <<>> /\ request.pc = "returned" /\ request.result = <<>>
        /\ \A k \in 1..Len(request.posts) :
              (Reviewed(k) \/ Refused(k)) => k = Len(request.posts) /\ request.pc = "returned"
        /\ request.pc = "returned" =>
              IF request.posts # <<>> /\ Reviewed(Len(request.posts))
              THEN request.result = OpenRouterReview
              ELSE /\ request.result = <<>>
                   /\ \/ request.api_key \in {"None", ""}
                      \/ request.posts # <<>> /\ Refused(Len(request.posts))
                      \/ Len(request.sent) = Len(request.all_models_to_try)
        /\ request.pc = "loop" => request.result = <<>>

\* C27: get_review asks the models of the primary list and then of the
\* fallback list, in order and each entry once; it returns the review of the
\* first 200 answer with parsable JSON, stops with None at a 401, goes on
\* to the next model after any other failure, sends nothing without an API
\* key, returns None when all models failed; and every call returns.
C27_OpenRouterFallback ==
    /\ []OpenRouterSafety
    /\ (request # <<>>) ~> (request # <<>> /\ request.pc = "returned")

\* a call that went on after a 429, a timeout and an unparsable answer and
\* returned the review of the fourth model
C27_Witness ==
    /\ request # <<>> /\ request.pc = "returned"
    /\ request.result = OpenRouterReview
    /\ request.sent = SubSeq(default_models \o default_fallback, 1, 4)
    /\ request.posts[1].status = 429
    /\ request.posts[2].kind = "Timeout"
    /\ request.posts[3].content = "prose"

\* C30: every stored quality_score is at most 5.0, the avg_quality_score of
\* every project metrics dict and of every report the gate reads is at most
\* 5.0, and the gate run in mode batch with --min-quality 6.0 does not end
\* with PROJECT PASSED.
C30_GateNeverPasses ==
    /\ \A p \in DOMAIN files : files[p].quality_score <= 5 * 20000
    /\ result # <<>> => result.avg_quality_score <= 50
    /\ (probe # <<>> /\ probe.report # <<>>) => probe.report.avg_quality_score <= 50
    /\ (/\ op # <<>> /\ op.name = "gate"
        /\ op.arg[2] = DefaultMinQuality /\ op.arg[3] = "batch") =>
           outcome # "PROJECT PASSED"

\* the batch gate with --min-quality 6.0 has failed a project without
\* smells whose files all have quality_score 5.0, on the report scan wrote
C30_Witness ==
    /\ op # <<>> /\ op.name = "gate"
    /\ op.arg[2] = DefaultMinQuality /\ op.arg[3] = "batch"
    /\ outcome = "PROJECT FAILED"
    /\ probe.report.timestamp # <<>>
    /\ probe.report.total_smells = 0
    /\ probe.report.avg_quality_score = 50
    /\ DOMAIN files = Paths
    /\ \A p \in Paths : files[p].quality_score = 5 * 20000

====
